---- MODULE Spec2Model ----
(***************************************************************************)
(* The plugin RPC server of hodu-plugin-sdk (src/hodu-plugin-sdk/src/      *)
(* server.rs): PluginServer::run reads stdin line by line and awaits       *)
(* handle_message / handle_batch for each line before it reads the next.   *)
(***************************************************************************)
EXTENDS Integers, Sequences, FiniteSets, TLC

\* ------------------------------------------------------------------ bounds
MaxBatch == 2       \* elements of a batch line
MaxNotes == 1       \* notifications written while one input line is handled
MaxPending == 1     \* lines waiting in the stdin pipe
MaxRequests == 3    \* handle_message calls of one run
MaxRegistrations == 3   \* builder calls that register a method
MaxCalls == 1       \* calls of a tensor program that return a tensor
MaxLen == 2         \* elements of a vector diag is called on
MaxDiag == 4        \* |k| of a diagonal offset
I32Bits == 5        \* bits of the model's i32: tensors of 2^31 elements are not enumerable
MaxStr == 5         \* characters of a device string
UsizeBits == 4      \* bits of the model's usize: a number past 2^64 needs 20 digits
MaxOutputs == 2     \* entries of the outputs map of save_outputs
MaxWraps == 1       \* multiples of 2^32 an element count goes up to

Ids == {1, 2}

\* Option<T>
None == <<>>
Some(x) == <<x>>

\* Option::or (server.rs:766)
OptionOr(a, b) == IF a # None THEN a ELSE b

\* ------------------------------------------------------------ method names
INITIALIZE == "initialize"
SHUTDOWN == "shutdown"
CANCEL == "$/cancel"
PING == "$/ping"

\* The characters of the method names and prefixes the model uses.
Chars(s) ==
    CASE s = "initialize" -> <<"i","n","i","t","i","a","l","i","z","e">>
      [] s = "shutdown" -> <<"s","h","u","t","d","o","w","n">>
      [] s = "$/cancel" -> <<"$","/","c","a","n","c","e","l">>
      [] s = "$/ping" -> <<"$","/","p","i","n","g">>
      [] s = "$/status" -> <<"$","/","s","t","a","t","u","s">>
      [] s = "backend.run" -> <<"b","a","c","k","e","n","d",".","r","u","n">>
      [] s = "backend.build" -> <<"b","a","c","k","e","n","d",".","b","u","i","l","d">>
      [] s = "format.load_tensor" ->
            <<"f","o","r","m","a","t",".","l","o","a","d","_","t","e","n","s","o","r">>
      [] s = "backend.custom" -> <<"b","a","c","k","e","n","d",".","c","u","s","t","o","m">>
      [] s = "compile" -> <<"c","o","m","p","i","l","e">>
      [] s = "$/" -> <<"$","/">>
      [] s = "format." -> <<"f","o","r","m","a","t",".">>
      [] s = "backend." -> <<"b","a","c","k","e","n","d",".">>
      [] s = "hodu_" -> <<"h","o","d","u","_">>
      [] s = "_" -> <<"_">>
      [] s = "cpu" -> <<"c","p","u">>
      [] s = "cuda" -> <<"c","u","d","a">>
      [] s = "metal" -> <<"m","e","t","a","l">>
      [] s = "shl" -> <<"s","h","l">>
      [] s = "shr" -> <<"s","h","r">>
      [] s = "bitwise_and" -> <<"b","i","t","w","i","s","e","_","a","n","d">>
      [] s = "bitwise_or" -> <<"b","i","t","w","i","s","e","_","o","r">>
      [] s = "bitwise_xor" -> <<"b","i","t","w","i","s","e","_","x","o","r">>
      [] s = "bitwise_not" -> <<"b","i","t","w","i","s","e","_","n","o","t">>
      [] s = "shl_scalar" -> <<"s","h","l","_","s","c","a","l","a","r">>
      [] s = "shr_scalar" -> <<"s","h","r","_","s","c","a","l","a","r">>
      [] s = "det" -> <<"d","e","t">>
      [] s = "inv" -> <<"i","n","v">>
      [] s = "trace" -> <<"t","r","a","c","e">>
      [] s = "matmul" -> <<"m","a","t","m","u","l">>
      [] s = "u8" -> <<"u","8">>
      [] s = "u16" -> <<"u","1","6">>
      [] s = "u32" -> <<"u","3","2">>
      [] s = "u64" -> <<"u","6","4">>
      [] s = "i8" -> <<"i","8">>
      [] s = "i16" -> <<"i","1","6">>
      [] s = "i32" -> <<"i","3","2">>
      [] s = "i64" -> <<"i","6","4">>
      [] s = "bool" -> <<"b","o","o","l">>
      [] s = "f8e4m3" -> <<"f","8","e","4","m","3">>
      [] s = "f8e5m2" -> <<"f","8","e","5","m","2">>
      [] s = "bf16" -> <<"b","f","1","6">>
      [] s = "f16" -> <<"f","1","6">>
      [] s = "f32" -> <<"f","3","2">>
      [] s = "f64" -> <<"f","6","4">>
      [] OTHER -> <<>>

\* str::starts_with
starts_with(s, p) ==
    /\ Len(Chars(s)) >= Len(Chars(p))
    /\ SubSeq(Chars(s), 1, Len(Chars(p))) = Chars(p)

\* ------------------------------------------------------------- registration
\* The builder calls of PluginServer: srv is [handlers, capabilities].
NewServer == [handlers |-> {}, capabilities |-> <<>>]

InSeq(x, s) == \E i \in 1..Len(s) : s[i] = x

\* register_capability without the test of the prefix
register_capability_any(caps, name) ==
    IF ~InSeq(name, caps) THEN Append(caps, name) ELSE caps

register_capability(caps, name) ==
    IF (starts_with(name, "format.") \/ starts_with(name, "backend."))
          /\ ~InSeq(name, caps)
    THEN Append(caps, name)
    ELSE caps

\* HashMap::insert on the handlers map, a set of [name, timeout, takes_params]
InsertHandler(hs, h) == {x \in hs : x.name # h.name} \cup {h}

method(srv, name) ==
    [handlers |-> InsertHandler(srv.handlers,
                     [name |-> name, timeout |-> None, takes_params |-> TRUE]),
     capabilities |-> register_capability(srv.capabilities, name)]

method_with_timeout(srv, name, timeout) ==
    [handlers |-> InsertHandler(srv.handlers,
                     [name |-> name, timeout |-> Some(timeout), takes_params |-> TRUE]),
     capabilities |-> register_capability(srv.capabilities, name)]

method_no_params(srv, name) ==
    [handlers |-> InsertHandler(srv.handlers,
                     [name |-> name, timeout |-> None, takes_params |-> FALSE]),
     capabilities |-> register_capability(srv.capabilities, name)]

\* The durations (seconds) the plugin passes to timeout() and
\* method_with_timeout(), as in the example of server.rs:542-544.
DefaultTimeout == 30
MethodTimeout == 120

\* The plugin the model runs: three registered methods; backend.build is not.
Plugin ==
    method_no_params(
        method_with_timeout(method(NewServer, "backend.run"),
                            "format.load_tensor", MethodTimeout),
        "$/status")

\* ------------------------------------------------------------------- input
\* params: missing, present but not deserializable, or deserializable; a
\* deserializable CancelParams carries the id to cancel.
NoParams == [tag |-> "missing", id |-> 0]
BadParams == [tag |-> "invalid", id |-> 0]
OkParams == [tag |-> "valid", id |-> 0]
CancelParams(i) == [tag |-> "valid", id |-> i]

Req(i, m, p) == [kind |-> "request", id |-> i, method |-> m, params |-> p, n |-> 0]

\* A line (or batch element) that does not parse as a Request.
Garbage == [kind |-> "garbage", id |-> 0, method |-> "", params |-> NoParams, n |-> 0]

Requests ==
    {Req(1, INITIALIZE, p) : p \in {NoParams, BadParams, OkParams}}
    \cup {Req(1, SHUTDOWN, NoParams)}
    \cup {Req(1, CANCEL, p) :
              p \in {NoParams, BadParams} \cup {CancelParams(j) : j \in Ids}}
    \cup {Req(i, PING, NoParams) : i \in Ids}
    \cup {Req(2, "$/status", NoParams)}
    \cup {Req(i, "backend.run", OkParams) : i \in Ids}
    \cup {Req(1, "backend.run", NoParams)}
    \cup {Req(1, "format.load_tensor", OkParams)}
    \cup {Req(2, "backend.build", OkParams)}

\* The JSON values a line or a batch array can hold.
Values == Requests \cup {Garbage}

\* The shapes of a line: one JSON value, a batch array of n values, an array
\* that does not parse, an empty line.
Shape(kind, k) == [kind |-> kind, id |-> 0, method |-> "", params |-> NoParams, n |-> k]
Single == Shape("single", 0)
Batch(k) == Shape("batch", k)
BadBatch == Shape("badbatch", 0)
EmptyLine == Shape("empty", 0)

Shapes == {Single, BadBatch, EmptyLine} \cup {Batch(k) : k \in 0..MaxBatch}

\* The notification the client sends to cancel request i.
CancelLine(i) == Req(i, CANCEL, CancelParams(i))

\* ---------------------------------------------------------------- responses
Response(i, code, msg, arg) == [id |-> i, code |-> code, msg |-> msg, arg |-> arg]
success(i) == Response(i, "OK", "", 0)
NoResponse == Response(0, "none", "", 0)

\* RpcError constructors: (code, message, argument)
RpcError(code, msg) == [code |-> code, msg |-> msg, arg |-> 0]
Ok == [code |-> "OK", msg |-> "", arg |-> 0]
parse_error == RpcError("PARSE_ERROR", "parse error")
invalid_request(msg) == RpcError("INVALID_REQUEST", msg)
invalid_params(msg) == RpcError("INVALID_PARAMS", msg)
method_not_found == RpcError("METHOD_NOT_FOUND", "method not found")
internal_error == RpcError("INTERNAL_ERROR", "internal error")
cancelled == RpcError("REQUEST_CANCELLED", "Request cancelled")

\* ToResponse of a handle_message that ends with None
ToResponse_none(i, result) == NoResponse

\* Response::success / Response::error from a handler result (server.rs:813-816)
ToResponse(i, result) == Response(i, result.code, result.msg, result.arg)


\* ------------------------------------------------------------- tensor types
\* DType (spec.md section 3); the integer ones are the arms of the bitwise
\* dispatch (be_cpu/storage/ops_bitwise.rs:58-85).
IntDTypes == {"u8", "u16", "u32", "u64", "i8", "i16", "i32", "i64"}
FloatDTypes == {"f8e4m3", "f8e5m2", "bf16", "f16", "f32", "f64"}
DTypes == IntDTypes \cup FloatDTypes \cup {"bool"}

\* dtypes behind #[cfg(feature = ..)] (be_cpu/storage/ops_bitwise.rs:61-81)
FeatureDTypes == {"u16", "u64", "i16", "i64"}

Backends == {"cpu", "cuda", "metal"}

\* ops.rs: LinalgOp, BitwiseBinaryOp, BitwiseUnaryOp, BitwiseUnaryScalarOp by
\* the names their Display gives (hodu_cpu_kernels ops_bitwise.rs:15-24).
LinalgOps == {"det", "inv", "trace"}
BitwiseBinaryOps == {"shl", "shr", "bitwise_and", "bitwise_or", "bitwise_xor"}
BitwiseUnaryOps == {"bitwise_not"}
BitwiseUnaryScalarOps == {"shl_scalar", "shr_scalar"}
BitwiseOps == BitwiseBinaryOps \cup BitwiseUnaryOps \cup BitwiseUnaryScalarOps

\* The variant of Op an operation is.
OpVariant(op) ==
    CASE op \in BitwiseBinaryOps -> "BitwiseBinary"
      [] op \in BitwiseUnaryOps -> "BitwiseUnary"
      [] op \in BitwiseUnaryScalarOps -> "BitwiseUnaryScalar"
      [] op \in LinalgOps -> "Linalg"
      [] OTHER -> "Other"

\* Shape::size of dims[i..]
RECURSIVE size_from(_, _)
size_from(dims, i) == IF i > Len(dims) THEN 1 ELSE dims[i] * size_from(dims, i + 1)

\* Layout::from_shape: row-major strides, offset 0.
from_shape(shape) ==
    [shape |-> shape,
     strides |-> [i \in 1..Len(shape) |-> size_from(shape, i + 1)],
     offset |-> 0]

\* Tensor: id, layout, dtype, device, requires-grad flag, storage present.
Tensor(id, layout, dtype, device, requires_grad, storage) ==
    [id |-> id, layout |-> layout, dtype |-> dtype, device |-> device,
     requires_grad |-> requires_grad, storage |-> storage]

NoTensor == Tensor(0, from_shape(<<>>), "none", "none", FALSE, FALSE)

\* What a call works on: the snapshot being captured, the gradient tape, the
\* tensor ids given out and the kernels launched; and the output buffers the
\* call allocates.
World(s, t, c, l) ==
    [snapshot |-> s, tape |-> t, created |-> c, launched |-> l, allocated |-> <<>>]

\* HoduResult<Tensor> with the world the call leaves.
Ret(err, t, w) == [err |-> err, tensor |-> t, w |-> w]
Fail(err, w) == Ret(err, NoTensor, w)

\* What the callees outside this file do that the caller cannot tell in advance:
\* the one of them that fails, if any, and gradient::is_computing_gradients().
Faults == {"none", "dtype", "capture", "record", "backend"}
Oracles ==
    {[fault |-> f, computing |-> FALSE] : f \in Faults}
        \cup {[fault |-> "none", computing |-> TRUE]}

\* ---------------------------------------------------------------- callees
\* utils::valid
validate_same_device(ts) == \A i, j \in 1..Len(ts) : ts[i].device = ts[j].device

validate_same_dtype(ts) == \A i, j \in 1..Len(ts) : ts[i].dtype = ts[j].dtype

\* A dtype whose feature may be absent is rejected when it is.
validate_dtype_for_device(dtype, device, o) ==
    ~(dtype \in FeatureDTypes /\ o.fault = "dtype")

\* Bitwise ops take the integer dtypes; the linalg ops take the float dtypes
\* and may reject any other.
validate_dtype_for_op(dtype, op, o) ==
    IF op \in BitwiseOps THEN dtype \in IntDTypes
    ELSE dtype \in FloatDTypes \/ o.fault # "dtype"

\* The linalg ops support gradient.
validate_requires_grad_for_op(op) == op \in LinalgOps \cup {"matmul"}

\* tensor::create_builder_tensor: a placeholder with a fresh id.
create_builder_tensor(w, layout, dtype, device, requires_grad) ==
    [w |-> [w EXCEPT !.created = @ + 1],
     tensor |-> Tensor(w.created + 1, layout, dtype, device, requires_grad, FALSE)]

\* tensor::from_storage_with_context: the storage wrapped with a fresh id.
from_storage_with_context(w, storage, layout, is_runtime, requires_grad) ==
    [w |-> [w EXCEPT !.created = @ + 1],
     tensor |-> Tensor(w.created + 1, layout, storage.dtype, storage.device,
                       requires_grad, TRUE)]

\* snapshot::capture::capture_operation: the node appended, or an error.
capture_operation(w, op, params, input_ids, output_id, input_layouts, output_layout, o) ==
    IF o.fault = "capture" THEN [err |-> "CaptureError", w |-> w]
    ELSE [err |-> "none",
          w |-> [w EXCEPT !.snapshot =
                    Append(@, [op |-> op, params |-> params, input_ids |-> input_ids,
                               output_id |-> output_id, input_layouts |-> input_layouts,
                               output_layout |-> output_layout])]]

\* gradient::record_operation: the tape entry appended, or an error.
record_operation(w, inputs, output_id, op, params, o) ==
    IF o.fault = "record" THEN [err |-> "GradientError", w |-> w]
    ELSE [err |-> "none",
          w |-> [w EXCEPT !.tape =
                    Append(@, [inputs |-> inputs, output_id |-> output_id, op |-> op,
                               params |-> params])]]

\* ------------------------------------------------------- backend dispatch
\* The identifier without the name of the op
kernel_name_no_op(backend, op, dtype) ==
    Chars("hodu_") \o Chars(backend) \o Chars("_") \o Chars(dtype)

\* format!("hodu_cpu_{}_{}", bitwise_op, lhs_storage.dtype()) and its like
\* on the other backends.
kernel_name(backend, op, dtype) ==
    Chars("hodu_") \o Chars(backend) \o Chars("_") \o Chars(op) \o Chars("_") \o Chars(dtype)

\* Storage: the backend it lives on and the dtype of its variant.
Storage(device, dtype) == [device |-> device, dtype |-> dtype]
NoStorage == Storage("none", "none")

\* HoduResult<Storage> with the kernels the call launched.
StorageOk(s, kernels) == [err |-> "none", storage |-> s, launched |-> kernels]
StorageErr(e) == [err |-> e, storage |-> NoStorage, launched |-> <<>>]

\* The integer dtypes the build has: those without a feature and those whose
\* feature is on.
EnabledInt(feats) == (IntDTypes \ FeatureDTypes) \cup feats

\* The dtypes a storage can have in the build.
StorageDTypes(feats) == DTypes \ (FeatureDTypes \ feats)

\* What the callees of a dispatch function do: the allocation of the output
\* or the kernel call may fail, and an error of a kernel crate is converted by
\* `?` into a HoduError this file does not name.
BackendFaults == {"none", "alloc", "kernel"}
Conversions == {"BackendError", "KernelError"}
BackendOracles == [fault : BackendFaults, conv : Conversions]

\* The tables of the kernel crates: one kernel per op of the family and
\* integer dtype (hodu_cpu_kernels ops_bitwise.rs:118-130, 181-264).
HasKernel(backend, variant, op, dtype) ==
    /\ OpVariant(op) = variant
    /\ dtype \in IntDTypes

\* be_cpu: the variant of the op, the kernel name, the allocation, then the
\* match on the dtypes of the storages; the kernel call itself returns Ok.
cpu_call_ops_bitwise(variant, lhs_storage, rhs_storage, op, feats, o) ==
    IF OpVariant(op) # variant THEN StorageErr("BackendError")
    ELSE IF o.fault = "alloc" THEN StorageErr("AllocError")
    ELSE IF /\ lhs_storage.dtype \in EnabledInt(feats)
            /\ rhs_storage.dtype = lhs_storage.dtype
         THEN StorageOk(Storage("cpu", lhs_storage.dtype),
                        <<kernel_name("cpu", op, lhs_storage.dtype)>>)
         ELSE StorageErr("BackendError")

\* be_cuda: the variant of the op, the kernel name, then the match on the
\* dtypes; the arm allocates the output and calls the kernel.
cuda_call_ops_bitwise(variant, lhs_storage, rhs_storage, op, feats, o) ==
    IF OpVariant(op) # variant THEN StorageErr("BackendError")
    ELSE IF /\ lhs_storage.dtype \in EnabledInt(feats)
            /\ rhs_storage.dtype = lhs_storage.dtype
         THEN IF o.fault = "alloc" THEN StorageErr("AllocError")
              ELSE IF o.fault = "kernel" THEN StorageErr(o.conv)
              ELSE StorageOk(Storage("cuda", lhs_storage.dtype),
                             <<kernel_name("cuda", op, lhs_storage.dtype)>>)
         ELSE StorageErr("BackendError")

\* be_metal: the variant of the op, the output buffer, the kernel name, the
\* command buffer and the kernel call; no match on the dtype. load_pipeline
\* fails for a name the library has no kernel of.
metal_call_ops_bitwise(variant, lhs_storage, rhs_storage, op, feats, o) ==
    IF OpVariant(op) # variant THEN StorageErr("BackendError")
    ELSE IF o.fault = "alloc" THEN StorageErr("AllocError")
    ELSE IF o.fault = "kernel" THEN StorageErr(o.conv)
    ELSE IF ~HasKernel("metal", variant, op, lhs_storage.dtype) THEN StorageErr(o.conv)
    ELSE StorageOk(Storage("metal", lhs_storage.dtype),
                   <<kernel_name("metal", op, lhs_storage.dtype)>>)

\* BackendStorage: the call goes to the backend of the storage.
call_ops_bitwise(variant, lhs_storage, rhs_storage, op, feats, o) ==
    CASE lhs_storage.device = "cpu" ->
            cpu_call_ops_bitwise(variant, lhs_storage, rhs_storage, op, feats, o)
      [] lhs_storage.device = "cuda" ->
            cuda_call_ops_bitwise(variant, lhs_storage, rhs_storage, op, feats, o)
      [] OTHER ->
            metal_call_ops_bitwise(variant, lhs_storage, rhs_storage, op, feats, o)

call_ops_bitwise_binary(lhs_storage, rhs_storage, op, feats, o) ==
    call_ops_bitwise("BitwiseBinary", lhs_storage, rhs_storage, op, feats, o)

call_ops_bitwise_unary(storage, op, feats, o) ==
    call_ops_bitwise("BitwiseUnary", storage, storage, op, feats, o)

call_ops_bitwise_unary_scalar(storage, shift, op, feats, o) ==
    call_ops_bitwise("BitwiseUnaryScalar", storage, storage, op, feats, o)

\* call_ops_det, call_ops_inv, call_ops_trace: one kernel, a storage of the
\* dtype of the input.
call_ops_linalg(storage, op, o) ==
    IF o.fault # "none" THEN StorageErr("BackendError")
    ELSE StorageOk(Storage(storage.device, storage.dtype),
                   <<kernel_name(storage.device, op, storage.dtype)>>)

\* ----------------------------------------------------------- tensor façade
\* The storage of a tensor that has one.
StorageOf(t) == Storage(t.device, t.dtype)

\* The oracle of the backend a façade call hands down.
BackendOracle(o) ==
    [fault |-> IF o.fault = "backend" THEN "alloc" ELSE "none", conv |-> "KernelError"]

\* The value of K at the value of e, e computed once.
Bind(e, K(_)) == CHOOSE v \in {K(x) : x \in {e}} : TRUE

\* The world with the kernels of a backend call launched.
Launch(w, kernels) == [w EXCEPT !.launched = @ \o kernels]

\* The dimension a shape of rank <= n has at position k of rank n, and the
\* stride a broadcast view of it has there.
AlignedDim(shape, k, n) ==
    IF k <= n - Len(shape) THEN 1 ELSE shape[k - (n - Len(shape))]

AlignedStride(layout, k, n, dim) ==
    IF k <= n - Len(layout.shape) THEN 0
    ELSE IF layout.shape[k - (n - Len(layout.shape))] = dim
         THEN layout.strides[k - (n - Len(layout.shape))]
         ELSE 0

Max(a, b) == IF a >= b THEN a ELSE b

BroadcastShape(a, b) ==
    LET n == Max(Len(a), Len(b))
    IN  [k \in 1..n |-> Max(AlignedDim(a, k, n), AlignedDim(b, k, n))]

Broadcastable(a, b) ==
    LET n == Max(Len(a), Len(b))
    IN  \A k \in 1..n :
            \/ AlignedDim(a, k, n) = AlignedDim(b, k, n)
            \/ AlignedDim(a, k, n) = 1
            \/ AlignedDim(b, k, n) = 1

\* Tensor::broadcast: the tensor itself when it has the shape, else a view of
\* it with a fresh id.
BroadcastTo(w, t, shape) ==
    IF t.layout.shape = shape THEN [w |-> w, tensor |-> t]
    ELSE [w |-> [w EXCEPT !.created = @ + 1],
          tensor |-> [t EXCEPT !.id = w.created + 1,
                               !.layout = [shape |-> shape,
                                           strides |-> [k \in 1..Len(shape) |->
                                               AlignedStride(t.layout, k, Len(shape), shape[k])],
                                           offset |-> t.layout.offset]]]

\* tensor::utils::broadcast_tensors2: NumPy broadcast of the two operands.
broadcast_tensors2(w, lhs, rhs) ==
    IF ~Broadcastable(lhs.layout.shape, rhs.layout.shape)
    THEN [err |-> "IncompatibleShapes", w |-> w, lhs |-> lhs, rhs |-> rhs]
    ELSE LET shape == BroadcastShape(lhs.layout.shape, rhs.layout.shape)
             l == BroadcastTo(w, lhs, shape)
             r == BroadcastTo(l.w, rhs, shape)
         IN  [err |-> "none", w |-> r.w, lhs |-> l.tensor, rhs |-> r.tensor]

\* let num_els = lhs_layout.shape().size(): the elements of the output buffer
\* a bitwise dispatch function allocates.
output_num_els(lhs_layout) == size_from(lhs_layout.shape, 1)

\* The world with the output buffer of a tensor allocated.
Allocate(w, id, num_els) ==
    [w EXCEPT !.allocated = Append(@, [tensor |-> id, num_els |-> num_els])]

\* OpParams: the variant and, for the scalar shifts, the shift.
OpParams(kind, shift) == [kind |-> kind, shift |-> shift]

\* result_layout computed from the shape alone
bitwise_result_layout_contiguous(input_layout) == from_shape(input_layout.shape)

\* let result_layout = lhs_layout.clone()
bitwise_result_layout(input_layout) == input_layout

\* requires_grad taken over from the input
bitwise_requires_grad_input(input) == input.requires_grad

\* "Bitwise ops don't support gradient, requires_grad is always false"
bitwise_requires_grad(input) == FALSE

\* The two branches every bitwise macro ends with.
bitwise_branches(variant, op, params, w, lhs, rhs, inputs, capture, feats, o) ==
    IF capture
    THEN LET result_layout == bitwise_result_layout(lhs.layout)
             b == create_builder_tensor(w, result_layout, lhs.dtype, lhs.device,
                                        bitwise_requires_grad(lhs))
             cap == capture_operation(b.w, op, params, [i \in 1..Len(inputs) |-> inputs[i].id],
                                      b.tensor.id,
                                      [i \in 1..Len(inputs) |-> inputs[i].layout],
                                      result_layout, o)
         IN  IF cap.err # "none" THEN Fail(cap.err, cap.w)
             ELSE Ret("none", b.tensor, cap.w)
    ELSE Bind(call_ops_bitwise(variant, StorageOf(lhs), StorageOf(rhs), op, feats,
                               BackendOracle(o)), LAMBDA st :
            IF st.err # "none" THEN Fail(st.err, w)
            ELSE Bind(from_storage_with_context(Launch(w, st.launched), st.storage,
                                                lhs.layout, TRUE,
                                                bitwise_requires_grad(lhs)), LAMBDA r :
                    Ret("none", r.tensor,
                        Allocate(r.w, r.tensor.id, output_num_els(lhs.layout)))))

\* bitwise_binary_op!
bitwise_binary_op(op, w, self, rhs, capture, feats, o) ==
    IF ~validate_same_device(<<self, rhs>>) THEN Fail("DeviceMismatch", w)
    ELSE IF ~validate_same_dtype(<<self, rhs>>) THEN Fail("DTypeMismatch", w)
    ELSE IF ~validate_dtype_for_device(self.dtype, self.device, o)
         THEN Fail("UnsupportedDTypeForDevice", w)
    ELSE IF ~validate_dtype_for_op(self.dtype, op, o) THEN Fail("UnsupportedDTypeForOp", w)
    ELSE Bind(broadcast_tensors2(w, self, rhs), LAMBDA b :
            IF b.err # "none" THEN Fail(b.err, b.w)
            ELSE bitwise_branches("BitwiseBinary", op, OpParams("BitwiseBinaryParams", 0), b.w,
                                  b.lhs, b.rhs, <<b.lhs, b.rhs>>, capture, feats, o))

\* bitwise_unary_op!
bitwise_unary_op(op, w, self, capture, feats, o) ==
    IF ~validate_dtype_for_device(self.dtype, self.device, o)
    THEN Fail("UnsupportedDTypeForDevice", w)
    ELSE IF ~validate_dtype_for_op(self.dtype, op, o) THEN Fail("UnsupportedDTypeForOp", w)
    ELSE bitwise_branches("BitwiseUnary", op, OpParams("BitwiseUnaryParams", 0), w, self, self,
                          <<self>>, capture, feats, o)

\* bitwise_scalar_shift_op!
bitwise_scalar_shift_op(op, w, self, shift, capture, feats, o) ==
    IF ~validate_dtype_for_device(self.dtype, self.device, o)
    THEN Fail("UnsupportedDTypeForDevice", w)
    ELSE IF ~validate_dtype_for_op(self.dtype, op, o) THEN Fail("UnsupportedDTypeForOp", w)
    ELSE bitwise_branches("BitwiseUnaryScalar", op, OpParams("BitwiseUnaryScalarParams", shift), w, self, self,
                          <<self>>, capture, feats, o)

\* The check of the rank alone
square_matrix_rank_only(shape) == Len(shape) >= 2

\* if ndim < 2 { InvalidArgument }; if n != m { InvalidArgument }
square_matrix(shape) ==
    /\ Len(shape) >= 2
    /\ shape[Len(shape)] = shape[Len(shape) - 1]

\* The output shape of det and trace (the batch dimensions) and of inv.
linalg_output_shape(op, shape) ==
    IF op = "inv" THEN shape
    ELSE IF Len(shape) = 2 THEN <<1>>
    ELSE SubSeq(shape, 1, Len(shape) - 2)

\* records_gradient of an execute branch that records while gradients are
\* being computed
records_gradient_always(computing, requires_grad) == requires_grad

\* if !gradient::is_computing_gradients() && requires_grad (linalg.rs:86)
records_gradient(computing, requires_grad) == ~computing /\ requires_grad

\* The body det, inv and trace share.
linalg_op(op, params, w, self, capture, o) ==
    IF ~validate_dtype_for_device(self.dtype, self.device, o)
    THEN Fail("UnsupportedDTypeForDevice", w)
    ELSE IF ~validate_dtype_for_op(self.dtype, op, o) THEN Fail("UnsupportedDTypeForOp", w)
    ELSE IF ~square_matrix(self.layout.shape) THEN Fail("InvalidArgument", w)
    ELSE
    LET result_layout == from_shape(linalg_output_shape(op, self.layout.shape))
        requires_grad == self.requires_grad /\ validate_requires_grad_for_op(op)
    IN  IF capture
        THEN LET b == create_builder_tensor(w, result_layout, self.dtype, self.device,
                                            requires_grad)
                 cap == capture_operation(b.w, op, params, <<self.id>>, b.tensor.id,
                                          <<self.layout>>, result_layout, o)
                 rec == record_operation(cap.w, <<self.id>>, b.tensor.id, op, params, o)
             IN  IF cap.err # "none" THEN Fail(cap.err, cap.w)
                 ELSE IF requires_grad
                      THEN IF rec.err # "none" THEN Fail(rec.err, rec.w)
                           ELSE Ret("none", b.tensor, rec.w)
                      ELSE Ret("none", b.tensor, cap.w)
        ELSE LET st == call_ops_linalg(StorageOf(self), op, BackendOracle(o))
                 r == from_storage_with_context(Launch(w, st.launched), st.storage,
                                                result_layout, TRUE, requires_grad)
                 rec == record_operation(r.w, <<self.id>>, r.tensor.id, op, params, o)
             IN  IF st.err # "none" THEN Fail(st.err, w)
                 ELSE IF records_gradient(o.computing, requires_grad)
                      THEN IF rec.err # "none" THEN Fail(rec.err, rec.w)
                           ELSE Ret("none", r.tensor, rec.w)
                      ELSE Ret("none", r.tensor, r.w)

det(w, self, capture, o) == linalg_op("det", OpParams("DetParams", 0), w, self, capture, o)

inv(w, self, capture, o) == linalg_op("inv", OpParams("InvParams", 0), w, self, capture, o)

trace(w, self, capture, o) == linalg_op("trace", OpParams("TraceParams", 0), w, self, capture, o)

\* Tensor::matmul by the template of the façade: the operands agree in device
\* and dtype, the inner dimensions agree and the batch dimensions broadcast.
matmul(w, self, rhs, capture, o) ==
    LET a == self.layout.shape
        b == rhs.layout.shape
    IN
    IF ~validate_same_device(<<self, rhs>>) THEN Fail("DeviceMismatch", w)
    ELSE IF ~validate_same_dtype(<<self, rhs>>) THEN Fail("DTypeMismatch", w)
    ELSE IF ~validate_dtype_for_device(self.dtype, self.device, o)
         THEN Fail("UnsupportedDTypeForDevice", w)
    ELSE IF ~validate_dtype_for_op(self.dtype, "matmul", o)
         THEN Fail("UnsupportedDTypeForOp", w)
    ELSE IF Len(a) < 2 \/ Len(b) < 2 THEN Fail("IncompatibleShapes", w)
    ELSE IF a[Len(a)] # b[Len(b) - 1] THEN Fail("IncompatibleShapes", w)
    ELSE IF ~Broadcastable(SubSeq(a, 1, Len(a) - 2), SubSeq(b, 1, Len(b) - 2))
         THEN Fail("IncompatibleShapes", w)
    ELSE
    LET result_layout ==
            from_shape(BroadcastShape(SubSeq(a, 1, Len(a) - 2), SubSeq(b, 1, Len(b) - 2))
                       \o <<a[Len(a) - 1], b[Len(b)]>>)
        requires_grad == (self.requires_grad \/ rhs.requires_grad)
                         /\ validate_requires_grad_for_op("matmul")
        params == OpParams("MatmulParams", 0)
    IN  IF capture
        THEN LET t == create_builder_tensor(w, result_layout, self.dtype, self.device,
                                            requires_grad)
                 cap == capture_operation(t.w, "matmul", params, <<self.id, rhs.id>>,
                                          t.tensor.id, <<self.layout, rhs.layout>>,
                                          result_layout, o)
             IN  IF cap.err # "none" THEN Fail(cap.err, cap.w)
                 ELSE Ret("none", t.tensor, cap.w)
        ELSE LET st == call_ops_linalg(StorageOf(self), "matmul", BackendOracle(o))
                 r == from_storage_with_context(Launch(w, st.launched), st.storage,
                                                result_layout, TRUE, requires_grad)
                 rec == record_operation(r.w, <<self.id, rhs.id>>, r.tensor.id, "matmul",
                                         params, o)
             IN  IF st.err # "none" THEN Fail(st.err, w)
                 ELSE IF records_gradient(o.computing, requires_grad)
                      THEN IF rec.err # "none" THEN Fail(rec.err, rec.w)
                           ELSE Ret("none", r.tensor, rec.w)
                      ELSE Ret("none", r.tensor, r.w)

\* A view of the tensor with another layout: a node while capturing, no kernel.
ViewOp(op, w, self, layout, capture, o) ==
    LET t == [w |-> [w EXCEPT !.created = @ + 1],
              tensor |-> [self EXCEPT !.id = w.created + 1, !.layout = layout]]
        cap == capture_operation(t.w, op, OpParams("ViewParams", 0), <<self.id>>,
                                 t.tensor.id, <<self.layout>>, layout, o)
    IN  IF ~capture THEN Ret("none", t.tensor, t.w)
        ELSE IF cap.err # "none" THEN Fail(cap.err, cap.w)
        ELSE Ret("none", t.tensor, cap.w)

\* Tensor::unsqueeze(-1)
unsqueeze(w, self, capture, o) ==
    ViewOp("unsqueeze", w, self,
           [shape |-> Append(self.layout.shape, 1),
            strides |-> Append(self.layout.strides, 1),
            offset |-> self.layout.offset], capture, o)

\* Tensor::squeeze(&[-1])
squeeze(w, self, capture, o) ==
    LET n == Len(self.layout.shape)
    IN  IF n = 0 \/ self.layout.shape[n] # 1 THEN Fail("InvalidArgument", w)
        ELSE ViewOp("squeeze", w, self,
                    [shape |-> SubSeq(self.layout.shape, 1, n - 1),
                     strides |-> SubSeq(self.layout.strides, 1, n - 1),
                     offset |-> self.layout.offset], capture, o)

\* Tensor::solve: inv(A) @ b, a 1-D b lifted to a column and back.
solve(w, self, b, capture, o) ==
    Bind(inv(w, self, capture, o), LAMBDA inv_a :
        IF inv_a.err # "none" THEN Fail(inv_a.err, inv_a.w)
        ELSE IF Len(b.layout.shape) = 1
             THEN Bind(unsqueeze(inv_a.w, b, capture, o), LAMBDA b_col :
                    IF b_col.err # "none" THEN Fail(b_col.err, b_col.w)
                    ELSE Bind(matmul(b_col.w, inv_a.tensor, b_col.tensor, capture, o),
                              LAMBDA x_col :
                                IF x_col.err # "none" THEN Fail(x_col.err, x_col.w)
                                ELSE squeeze(x_col.w, x_col.tensor, capture, o)))
             ELSE matmul(inv_a.w, inv_a.tensor, b, capture, o))

\* The façade function of each name.
Facade(op, w, args, shift, capture, feats, o) ==
    CASE op = "det" -> det(w, args[1], capture, o)
      [] op = "inv" -> inv(w, args[1], capture, o)
      [] op = "trace" -> trace(w, args[1], capture, o)
      [] op = "solve" -> solve(w, args[1], args[2], capture, o)
      [] op \in BitwiseBinaryOps ->
            bitwise_binary_op(op, w, args[1], args[2], capture, feats, o)
      [] op \in BitwiseUnaryOps -> bitwise_unary_op(op, w, args[1], capture, feats, o)
      [] OTHER -> bitwise_scalar_shift_op(op, w, args[1], shift, capture, feats, o)


\* ------------------------------------------------------------ tril and triu
\* Element values: a finite number, an infinity by its sign, or NaN.
Num(n) == [kind |-> "num", v |-> n]
Inf == [kind |-> "inf", v |-> 1]
NaN == [kind |-> "nan", v |-> 0]

\* A tensor by its elements: shape, dtype and the element at each index.
Indices(shape) ==
    IF Len(shape) = 1 THEN {<<i>> : i \in 0..(shape[1] - 1)}
    ELSE (0..(shape[1] - 1)) \X (0..(shape[2] - 1))

Data(shape, dtype, at) == [shape |-> shape, dtype |-> dtype, at |-> at]

\* Tensor::arange(0i32, n as i32, 1i32)
arange(start, end) ==
    Data(<<end - start>>, "i32", [ix \in Indices(<<end - start>>) |-> Num(start + ix[1])])

\* reshape([n, 1]) and reshape([1, m]) of a 1-D tensor
reshape(t, shape) ==
    Data(shape, t.dtype,
         [ix \in Indices(shape) |-> t.at[<<ix[1] * shape[2] + ix[2]>>]])

\* add_scalar on an index tensor
add_scalar(t, scalar) ==
    Data(t.shape, t.dtype, [ix \in Indices(t.shape) |-> Num(t.at[ix].v + scalar)])

\* The element of a [n,1] or [1,m] or [n,m] tensor that is broadcast to ix.
BroadcastAt(t, ix) ==
    t.at[<<IF t.shape[1] = 1 THEN 0 ELSE ix[1], IF t.shape[2] = 1 THEN 0 ELSE ix[2]>>]

\* ge: the mask lhs >= rhs over the broadcast shape
ge(lhs, rhs) ==
    LET shape == <<Max(lhs.shape[1], rhs.shape[1]), Max(lhs.shape[2], rhs.shape[2])>>
    IN  Data(shape, "bool",
             [ix \in Indices(shape) |-> BroadcastAt(lhs, ix).v >= BroadcastAt(rhs, ix).v])

\* to_dtype of a mask: true is 1 and false is 0
to_dtype(mask, dtype) ==
    Data(mask.shape, dtype,
         [ix \in Indices(mask.shape) |-> IF mask.at[ix] THEN Num(1) ELSE Num(0)])

\* The product of two elements: IEEE 754 for the special values of a float.
MulElem(a, b) ==
    IF a.kind = "nan" \/ b.kind = "nan" THEN NaN
    ELSE IF a.kind = "inf" /\ b.kind = "inf" THEN [kind |-> "inf", v |-> a.v * b.v]
    ELSE IF a.kind = "inf"
         THEN IF b.v = 0 THEN NaN
              ELSE [kind |-> "inf", v |-> IF b.v > 0 THEN a.v ELSE 0 - a.v]
    ELSE IF b.kind = "inf"
         THEN IF a.v = 0 THEN NaN
              ELSE [kind |-> "inf", v |-> IF a.v > 0 THEN b.v ELSE 0 - b.v]
    ELSE Num(a.v * b.v)

\* mul of two tensors of one shape
mul(lhs, rhs) ==
    Data(lhs.shape, lhs.dtype, [ix \in Indices(lhs.shape) |-> MulElem(lhs.at[ix], rhs.at[ix])])

NoData == Data(<<>>, "none", <<>>)

DataOk(t) == [err |-> "none", out |-> t]
DataErr(e) == [err |-> e, out |-> NoData]

\* mask = row_plus_diag.ge(&col_indices) for tril, col_indices.ge(&row_plus_diag)
\* for triu
tri_mask(lower, row_plus_diag, col_indices) ==
    IF lower THEN ge(row_plus_diag, col_indices) ELSE ge(col_indices, row_plus_diag)

\* The body tril and triu share.
tri_op(lower, self, diagonal) ==
    IF Len(self.shape) < 2 THEN DataErr("InvalidArgument")
    ELSE LET n == self.shape[1]
             m == self.shape[2]
             row_indices == reshape(arange(0, n), <<n, 1>>)
             col_indices == reshape(arange(0, m), <<1, m>>)
             row_plus_diag == add_scalar(row_indices, diagonal)
             mask == tri_mask(lower, row_plus_diag, col_indices)
             mask_typed == to_dtype(mask, self.dtype)
         IN  DataOk(mul(self, mask_typed))

tril(self, diagonal) == tri_op(TRUE, self, diagonal)

triu(self, diagonal) == tri_op(FALSE, self, diagonal)


\* --------------------------------------------------------------------- diag
\* `x as i32`: the low I32Bits bits of x as a two's complement number.
as_i32(x) ==
    LET r == x % (2 ^ I32Bits)
    IN  IF r >= 2 ^ (I32Bits - 1) THEN r - 2 ^ I32Bits ELSE r

\* The place of an index in the row-major order of a shape, and back.
FlatIndex(shape, ix) == IF Len(shape) = 1 THEN ix[1] ELSE ix[1] * shape[2] + ix[2]

IndexAt(shape, flat) ==
    IF Len(shape) = 1 THEN <<flat>> ELSE <<flat \div shape[2], flat % shape[2]>>

\* reshape between 1-D and 2-D shapes of one size
reshape_to(t, shape) ==
    Data(shape, t.dtype,
         [ix \in Indices(shape) |-> t.at[IndexAt(t.shape, FlatIndex(shape, ix))]])

\* mul_scalar and add_scalar on an i32 index tensor
mul_scalar(t, scalar) ==
    Data(t.shape, t.dtype, [ix \in Indices(t.shape) |-> Num(as_i32(t.at[ix].v * scalar))])

add_scalar_i32(t, scalar) ==
    Data(t.shape, t.dtype, [ix \in Indices(t.shape) |-> Num(as_i32(t.at[ix].v + scalar))])

\* Tensor::zeros
zeros(shape, dtype) == Data(shape, dtype, [ix \in Indices(shape) |-> Num(0)])

\* What scatter does with an index outside the tensor: the call fails, or the
\* element is not written.
ScatterOutcomes == {"error", "skip"}

\* scatter(0, indices, src) on a 1-D tensor: src[i] goes to place indices[i],
\* the last write to a place staying.
scatter(t, indices, src, outcome) ==
    LET n == t.shape[1]
        writers(j) == {i \in 0..(src.shape[1] - 1) : indices.at[<<i>>].v = j}
        outside == \E i \in 0..(src.shape[1] - 1) :
                        indices.at[<<i>>].v < 0 \/ indices.at[<<i>>].v >= n
    IN  IF outside /\ outcome = "error" THEN DataErr("IndexOutOfBounds")
        ELSE DataOk(Data(t.shape, t.dtype,
                 [ix \in Indices(t.shape) |->
                    IF writers(ix[1]) = {} THEN t.at[ix]
                    ELSE src.at[<<CHOOSE i \in writers(ix[1]) :
                                    \A j \in writers(ix[1]) : j <= i>>]]))

\* index_select(0, indices): the rows of a matrix the indices name
index_select(t, indices) ==
    Data(<<indices.shape[1], t.shape[2]>>, t.dtype,
         [ix \in Indices(<<indices.shape[1], t.shape[2]>>) |->
            t.at[<<indices.at[<<ix[1]>>].v, ix[2]>>]])

\* gather(1, indices): of each row the element the row's index names
gather(t, indices) ==
    Data(indices.shape, t.dtype,
         [ix \in Indices(indices.shape) |-> t.at[<<ix[1], indices.at[ix].v>>]])

Abs(k) == IF k >= 0 THEN k ELSE 0 - k

Min(a, b) == IF a <= b THEN a ELSE b

\* let base = (row_start * size + col_start) as i32; let stride = (size + 1) as i32;
\* indices = arange(0, n).mul_scalar(stride).add_scalar(base)
diag_indices(n, k) ==
    LET abs_k == Abs(k)
        size == n + abs_k
        row_start == IF k >= 0 THEN 0 ELSE abs_k
        col_start == IF k >= 0 THEN k ELSE 0
        base == as_i32(row_start * size + col_start)
        stride == as_i32(size + 1)
        i_range == arange(0, as_i32(n))
    IN  add_scalar_i32(mul_scalar(i_range, stride), base)

\* Tensor::diag_1d_to_2d
diag_1d_to_2d(self, k, outcome) ==
    LET n == self.shape[1]
        size == n + Abs(k)
        flat_zeros == reshape_to(zeros(<<size, size>>, self.dtype), <<size * size>>)
        result_flat == scatter(flat_zeros, diag_indices(n, k), self, outcome)
    IN  IF result_flat.err # "none" THEN result_flat
        ELSE DataOk(reshape_to(result_flat.out, <<size, size>>))

\* Tensor::diag_2d_to_1d
diag_2d_to_1d(self, k) ==
    LET n == self.shape[1]
        m == self.shape[2]
        diag_len == IF k >= 0
                    THEN IF k >= m THEN 0 ELSE Min(n, m - k)
                    ELSE IF Abs(k) >= n THEN 0 ELSE Min(m, n - Abs(k))
        row_start == IF k >= 0 THEN 0 ELSE Abs(k)
        col_start == IF k >= 0 THEN k ELSE 0
        row_indices == arange(as_i32(row_start), as_i32(row_start + diag_len))
        col_indices == arange(as_i32(col_start), as_i32(col_start + diag_len))
        rows_selected == index_select(self, row_indices)
        col_indices_reshaped == reshape_to(col_indices, <<diag_len, 1>>)
        result == gather(rows_selected, col_indices_reshaped)
    IN  IF diag_len = 0 THEN DataOk(zeros(<<0>>, self.dtype))
        ELSE DataOk(reshape_to(result, <<diag_len>>))

\* Tensor::diag
diag(self, k, outcome) ==
    CASE Len(self.shape) = 1 -> diag_1d_to_2d(self, k, outcome)
      [] Len(self.shape) = 2 -> diag_2d_to_1d(self, k)
      [] OTHER -> DataErr("InvalidArgument")


\* ------------------------------------------------- the CUDA bitwise launchers
\* let block_size = 256u32
BlockSize == 256

\* 2^32 / block_size: the blocks a u32 count of elements can be.
U32Blocks == 2 ^ 24

\* An element count, a usize, held as blocks * block_size + rest with
\* rest < block_size: the counts past u32::MAX are not numbers of the checker.
Count(blocks, rest) == [blocks |-> blocks, rest |-> rest]

\* num_els as u32: the count modulo 2^32.
as_u32(n) == Count(n.blocks % U32Blocks, n.rest)

\* u32::div_ceil(self, block_size)
div_ceil(n) == n.blocks + (IF n.rest > 0 THEN 1 ELSE 0)

\* LaunchConfig { grid_dim, block_dim, shared_mem_bytes }
LaunchConfig(grid_size, block_size) ==
    [grid_dim |-> <<grid_size, 1, 1>>, block_dim |-> <<block_size, 1, 1>>,
     shared_mem_bytes |-> 0]

NoLaunchConfig == LaunchConfig(0, 0)

\* What the callees of a launcher do: load_function, memcpy_stod or
\* func.launch fails, or none does.
LaunchFaults == {"none", "load", "memcpy", "launch"}

\* The lines the three launchers share: the function is loaded, the launch
\* configuration computed from metadata[0], the metadata copied to the device
\* and the kernel launched. [err, cfg]: cfg is what launch was called with.
launch_bitwise(num_els, fault) ==
    IF fault = "load" THEN [err |-> "LoadError", cfg |-> NoLaunchConfig]
    ELSE LET block_size == BlockSize
             grid_size == Max(div_ceil(as_u32(num_els)), 1)
             cfg == LaunchConfig(grid_size, block_size)
         IN  IF fault = "memcpy" THEN [err |-> "MemoryError", cfg |-> NoLaunchConfig]
             ELSE IF fault = "launch" THEN [err |-> "LaunchError", cfg |-> cfg]
             ELSE [err |-> "none", cfg |-> cfg]

call_ops_binary_bitwise(num_els, fault) == launch_bitwise(num_els, fault)

call_ops_unary_bitwise(num_els, fault) == launch_bitwise(num_els, fault)

call_ops_scalar_shift(num_els, fault) == launch_bitwise(num_els, fault)

\* ---------------------------------------------------------- parse_device_id
\* usize::MAX of the model.
UsizeMax == 2 ^ UsizeBits - 1

DecimalDigits == <<"0", "1", "2", "3", "4", "5", "6", "7", "8", "9">>

IsDigit(c) == \E d \in 1..10 : DecimalDigits[d] = c

DigitValue(c) == (CHOOSE d \in 1..10 : DecimalDigits[d] = c) - 1

\* The places where "::" occurs in s.
SeparatorsAt(s) == {i \in 1..(Len(s) - 1) : s[i] = ":" /\ s[i + 1] = ":"}

\* The least element of a non-empty set of numbers.
Least(S) == CHOOSE i \in S : \A j \in S : i <= j

\* device.split("::"): the pieces between the occurrences of "::", found
\* from the left without overlap.
RECURSIVE split(_)
split(s) ==
    IF SeparatorsAt(s) = {} THEN <<s>>
    ELSE LET i == Least(SeparatorsAt(s))
         IN  <<SubSeq(s, 1, i - 1)>> \o split(SubSeq(s, i + 2, Len(s)))

\* Iterator::nth(n), counting from 0
nth(items, n) == IF n + 1 <= Len(items) THEN Some(items[n + 1]) ELSE None

\* The number a string of digits denotes, or UsizeMax + 1 for every number
\* that usize cannot hold.
RECURSIVE digits_value(_)
digits_value(s) ==
    IF s = <<>> THEN 0
    ELSE LET v == digits_value(SubSeq(s, 1, Len(s) - 1)) * 10 + DigitValue(s[Len(s)])
         IN  IF v > UsizeMax THEN UsizeMax + 1 ELSE v

\* str::parse::<usize>(): an optional '+', then one or more digits whose
\* number fits.
parse_usize(s) ==
    LET digits == IF s # <<>> /\ s[1] = "+" THEN SubSeq(s, 2, Len(s)) ELSE s
    IN  IF digits = <<>> THEN None
        ELSE IF \E i \in 1..Len(digits) : ~IsDigit(digits[i]) THEN None
        ELSE IF digits_value(digits) > UsizeMax THEN None
        ELSE Some(digits_value(digits))

\* the piece after the last "::" parsed
parse_device_id_last(device) ==
    LET id == nth(split(device), Len(split(device)) - 1)
    IN  IF Len(split(device)) < 2 THEN None ELSE parse_usize(id[1])

\* device.split("::").nth(1).and_then(|id| id.parse().ok())
parse_device_id(device) ==
    LET id == nth(split(device), 1)
    IN  IF id = None THEN None ELSE parse_usize(id[1])


\* -------------------------------------------------------------- save_outputs
\* s contains the characters of p in a row.
contains(s, p) ==
    \E i \in 1..(Len(s) - Len(p) + 1) : SubSeq(s, i, i + Len(p) - 1) = p

\* validate_output_name: "ok" or the error.
validate_output_name(name) ==
    IF name = <<>> THEN "empty"
    ELSE IF contains(name, <<"/">>) \/ contains(name, <<"\\">>) \/ contains(name, <<".", ".">>)
         THEN "invalid characters"
    ELSE IF contains(name, <<"NUL">>) THEN "null byte"
    ELSE "ok"

\* str::to_lowercase on the formats of the model
to_lowercase(format) ==
    CASE format = "HDT" -> "hdt"
      [] format = "JSON" -> "json"
      [] OTHER -> format

\* format!("{}.{}", name, format.to_lowercase())
file_name(name, format) == name \o <<".">> \o <<to_lowercase(format)>>

\* Path::join: a path with a drive prefix replaces the directory on Windows;
\* every other relative path is appended to it.
DriveLetters == {"a"}

has_prefix(path) == Len(path) >= 2 /\ path[1] \in DriveLetters /\ path[2] = ":"

join(dir, path, platform) ==
    IF platform = "windows" /\ has_prefix(path) THEN [base |-> "drive", rel |-> path]
    ELSE [base |-> dir, rel |-> path]

\* Result<(), Box<dyn Error>> with the files created.
Saved(err, files) == [err |-> err, files |-> files]

\* The body of the loop for the outputs from the i-th of the order on.
RECURSIVE save_from(_, _, _, _, _, _)
save_from(order, i, format, platform, fault, files) ==
    IF i > Len(order) THEN Saved("none", files)
    ELSE LET name == order[i]
             file_path == join("save_dir", file_name(name, format), platform)
         IN  IF validate_output_name(name) # "ok" THEN Saved(validate_output_name(name), files)
             ELSE IF fault[name] = "tensor" THEN Saved("Failed to create tensor", files)
             ELSE IF to_lowercase(format) \notin {"hdt", "json"}
                  THEN Saved("Unsupported save format", files)
             ELSE IF fault[name] = "save" THEN Saved("save", files)
             ELSE save_from(order, i + 1, format, platform, fault,
                            files \cup {[name |-> name, path |-> file_path]})

\* save_outputs with the map iterated in this order
save_outputs(order, format, platform, dir_fault, fault) ==
    IF dir_fault THEN Saved("create_dir_all", {})
    ELSE save_from(order, 1, format, platform, fault, {})


\* -------------------------------------------------------------------- state
VARIABLES
    handlers,           \* PluginServer.handlers
    capabilities,       \* PluginServer.capabilities
    default_timeout,    \* PluginServer.default_timeout: Option<Duration>
    pre_request_hook,   \* PluginServer.pre_request_hook is Some
    post_request_hook,  \* PluginServer.post_request_hook is Some
    shutdown_callback,  \* PluginServer.shutdown_callback is Some
    initialized,        \* PluginServer.initialized
    active_requests,    \* PluginServer.active_requests: id -> handle of a context
    stdin,              \* lines the client has written and run() has not read
    stdout,             \* lines written while the current input line is handled
    pc,                 \* where run() is: "read", "dispatch", "await", "exited"
    line,               \* the input line being handled
    left,               \* values of the line handle_message has not been given
    responses,          \* handle_batch's responses vector: the ids of the responses
    batchReqs,          \* id and class of the values handle_message was given so far
    cur,                \* the handle_message call suspended on its handler
    running,            \* handler futures not yet completed or dropped
    nreq,               \* handle_message calls so far
    exit_code,          \* Some(code) once the process has exited
    cleanups,           \* times the shutdown callback has run
    last,               \* the last handle_message call of the current line
    nregs,              \* method registrations made on the builder so far
    init_result,        \* capabilities of the InitializeResult, once returned
    capture_active,     \* snapshot::capture::is_active()
    features,           \* the dtype features the crate is built with
    snapshot,           \* nodes of the snapshot being captured
    tape,               \* entries of the gradient tape
    created,            \* tensor ids given out
    launched,           \* kernels launched, by name
    produced,           \* tensors the calls of the program returned
    call,               \* the last call of the program
    storage_call,       \* a call of a backend dispatch function made on its own
    tri_call,           \* a call of tril or triu made on its own
    diag_call,          \* a call of diag on a vector and of diag on its result
    parse_call,         \* a call of parse_device_id made on its own
    save_call,          \* a call of save_outputs made on its own
    launch_call         \* a call of a CUDA bitwise launcher made on its own

vars == <<handlers, capabilities, default_timeout, pre_request_hook,
          post_request_hook, shutdown_callback, initialized, active_requests,
          stdin, stdout, pc, line, left, responses, batchReqs, cur, running,
          nreq, exit_code, cleanups, last>>

config == <<handlers, capabilities, default_timeout, pre_request_hook,
            post_request_hook>>

\* The builder as the registration specification drives it.
builder_vars == <<nregs, init_result>>

\* The tensor program.
program_vars == <<capture_active, snapshot, tape, created, launched, produced, call>>

\* The build and the backend called on its own.
backend_vars == <<features, storage_call>>

\* The functions called on their own.
unit_vars == <<diag_call, parse_call, save_call, launch_call>>

tensor_vars == <<program_vars, backend_vars, tri_call, unit_vars>>

\* State the server's run does not touch.
others == <<builder_vars, tensor_vars>>

NoCall ==
    [op |-> "none", args |-> <<>>, shift |-> 0, err |-> "none", tensor |-> NoTensor,
     before |-> World(<<>>, <<>>, 0, <<>>), allocated |-> <<>>, computing |-> FALSE]

NoStorageCall ==
    [backend |-> "none", fn |-> "none", op |-> "none", lhs |-> "none", rhs |-> "none",
     fault |-> "none", state |-> "none", err |-> "none", storage |-> NoStorage,
     launched |-> <<>>]

\* No tensor program runs.
ProgramIdle ==
    /\ capture_active = FALSE
    /\ snapshot = <<>>
    /\ tape = <<>>
    /\ created = 0
    /\ launched = <<>>
    /\ produced = <<>>
    /\ call = NoCall

\* A build with every feature; no dispatch function is called on its own.
BackendIdle ==
    /\ features = FeatureDTypes
    /\ storage_call = NoStorageCall

NoTriCall ==
    [fn |-> "none", self |-> NoData, diagonal |-> 0, state |-> "none", err |-> "none",
     out |-> NoData]

NoUnitCall == [state |-> "none"]

DiagIdle == diag_call = NoUnitCall
ParseIdle == parse_call = NoUnitCall
SaveIdle == save_call = NoUnitCall
LaunchIdle == launch_call = NoUnitCall

UnitsIdle == DiagIdle /\ ParseIdle /\ SaveIdle /\ LaunchIdle

TensorIdle == ProgramIdle /\ BackendIdle /\ tri_call = NoTriCall /\ UnitsIdle

\* What run() and handle_message work on.
run_vars == <<default_timeout, pre_request_hook, post_request_hook, shutdown_callback,
              active_requests, stdin, stdout, pc, line, left, responses, batchReqs,
              cur, running, nreq, exit_code, cleanups, last>>

NoPost == [called |-> FALSE, success |-> FALSE, error_code |-> "none"]

NoLast ==
    [inst |-> 0, req |-> EmptyLine, resp |-> NoResponse, batch |-> FALSE,
     pre |-> "skipped", post |-> NoPost, invoked |-> FALSE, user |-> FALSE,
     init_before |-> FALSE, timed_out |-> FALSE, flag |-> FALSE]

NoCur == [inst |-> 0, req |-> EmptyLine, pre |-> "skipped"]

\* A line of stdin. Its content is drawn when run() reads it, except for the
\* cancel notification aimed at the request whose handler is running when the
\* client writes it: target is that request's id, during its call.
Opaque == [target |-> 0, during |-> 0]

\* stdout lines: one response, a response array, or a notification written
\* by the handler of call `from` (0: by the server itself). A response is
\* held by its id; what it says is last.resp when it is returned.
ResponseLine(r) == [kind |-> "response", ids |-> <<r.id>>, from |-> 0]
ArrayLine(rs) == [kind |-> "array", ids |-> rs, from |-> 0]
NotificationLine(i) == [kind |-> "notification", ids |-> <<>>, from |-> i]

IdsOf(rs) == [i \in 1..Len(rs) |-> rs[i].id]

\* What a value given to handle_message is: no request at all, the `$/cancel`
\* notification, the shutdown request, or any other request.
Class(v) ==
    IF v.kind = "garbage" THEN "garbage"
    ELSE IF v.method = CANCEL THEN "notification"
    ELSE IF v.method = SHUTDOWN THEN "shutdown"
    ELSE "request"

Seen(v) == [id |-> v.id, class |-> Class(v)]

Notifications(out) == {i \in 1..Len(out) : out[i].kind = "notification"}

\* PluginServer::new, then the builder calls of the plugin: its three
\* methods and on_shutdown; timeout(), on_request() and on_response() or not.
Init ==
    /\ handlers = Plugin.handlers
    /\ capabilities = Plugin.capabilities
    /\ default_timeout \in {None, Some(DefaultTimeout)}
    /\ pre_request_hook \in BOOLEAN
    /\ post_request_hook \in BOOLEAN
    /\ shutdown_callback = TRUE
    /\ initialized = FALSE
    /\ active_requests = {}
    /\ stdin = <<>>
    /\ stdout = <<>>
    /\ pc = "read"
    /\ line = EmptyLine
    /\ left = 0
    /\ responses = <<>>
    /\ batchReqs = <<>>
    /\ cur = NoCur
    /\ running = {}
    /\ nreq = 0
    /\ exit_code = None
    /\ cleanups = 0
    /\ last = NoLast
    /\ nregs = 3
    /\ init_result = None
    /\ TensorIdle

\* ------------------------------------------------------------------ helpers
\* hooks_skipped without the test for shutdown
hooks_skipped_no_shutdown(m) == starts_with(m, "$/") \/ m = INITIALIZE

\* The methods the hooks are skipped for (server.rs:707 and 801).
hooks_skipped(m) == starts_with(m, "$/") \/ m = INITIALIZE \/ m = SHUTDOWN

\* What the pre-request hook can do with a request.
PreOutcomes(req) ==
    IF ~hooks_skipped(req.method) /\ pre_request_hook
    THEN {"continue", "reject"}
    ELSE {"skipped"}

\* The error a rejecting pre-request hook returns.
HookError == RpcError("HOOK_REJECTED", "rejected by hook")

\* reject_response that answers with the id of an unparsed request
reject_response_no_id(i, error) == ToResponse(0, error)

\* Some(Response::error(id, error)) of the rejection (server.rs:723)
reject_response(i, error) == ToResponse(i, error)

\* The post-request hook call for a result (server.rs:801-811).
PostHook(m, result) ==
    IF ~hooks_skipped(m) /\ post_request_hook
    THEN [called |-> TRUE, success |-> result.code = "OK",
          error_code |-> IF result.code = "OK" THEN "none" ELSE result.code]
    ELSE NoPost

\* PostHookRejected of a rejection that returns without calling the hook
PostHookRejected_skip(error) == NoPost

\* The post-request hook call after a rejection (server.rs:714-722).
PostHookRejected(error) ==
    IF post_request_hook
    THEN [called |-> TRUE, success |-> FALSE, error_code |-> error.code]
    ELSE NoPost

\* self.handlers.get(method)
GetHandler(hs, m) == {h \in hs : h.name = m}

\* route with the handler looked up before the initialized flag is tested
route_handler_first(init, hs, m) ==
    IF GetHandler(hs, m) # {} THEN "handler"
    ELSE IF ~init THEN "not_initialized"
    ELSE "not_found"

\* The arm `method =>` of handle_message (server.rs:747-795).
route(init, hs, m) ==
    IF ~init THEN "not_initialized"
    ELSE IF GetHandler(hs, m) # {} THEN "handler"
    ELSE "not_found"

\* effective_timeout with the default taking precedence
effective_timeout_default_first(h, default) == OptionOr(default, h.timeout)

\* handler.timeout.or(self.default_timeout)
effective_timeout(h, default) == OptionOr(h.timeout, default)

\* The result of the timeout arm (server.rs:775-778).
timed_out(d) ==
    [code |-> "REQUEST_CANCELLED", msg |-> "Request timed out after", arg |-> d]

\* HashMap insert / remove on active_requests, a set of [id, inst]
ActiveInsert(active, i, inst) ==
    {a \in active : a.id # i} \cup {[id |-> i, inst |-> inst]}

\* ActiveRemove of a handle_message that leaves the request registered
ActiveRemove_keep(active, i) == active

\* active.remove(&id) (server.rs:785-789)
ActiveRemove(active, i) == {a \in active : a.id # i}

\* push at the front of the vector
push_front(rs, r) == <<r.id>> \o rs

\* responses.push(resp)
push(rs, r) == Append(rs, r.id)

\* CanRead of a loop that does not wait for the handler
CanRead_while_awaiting(p) == p \in {"read", "await"}

\* The for loop of run() takes the next line only when the previous
\* iteration's await has returned.
CanRead(p) == p = "read"

\* drop_future of a timeout that leaves the handler running
drop_future_keep(futures, h) == futures

\* The handler future is dropped when tokio::time::timeout returns Elapsed.
drop_future(futures, h) == futures \ {h}

\* initialize_params of a handle_initialize that takes any params
initialize_params_any(params) == Ok

\* let _params: InitializeParams = match params { .. } (server.rs:840-843)
initialize_params(params) ==
    IF params.tag = "missing" THEN invalid_params("Missing params")
    ELSE IF params.tag # "valid" THEN invalid_params("invalid params")
    ELSE Ok

\* handle_initialize without the test of self.initialized
handle_initialize_again(init, params) ==
    IF params.tag = "missing"
    THEN [result |-> invalid_params("Missing params"), initialized |-> init]
    ELSE IF params.tag # "valid"
    THEN [result |-> invalid_params("invalid params"), initialized |-> init]
    ELSE [result |-> Ok, initialized |-> TRUE]

\* handle_initialize: [result, initialized']
handle_initialize(init, params) ==
    IF init THEN [result |-> invalid_request("Already initialized"), initialized |-> init]
    ELSE IF initialize_params(params) # Ok
    THEN [result |-> initialize_params(params), initialized |-> init]
    ELSE [result |-> Ok, initialized |-> TRUE]

\* handle_cancel: the futures with the flag of the cancelled context set,
\* and the debug log line it writes when the id is active.
handle_cancel(params, active, futures) ==
    LET hit == IF params.tag = "valid"
               THEN {a \in active : a.id = params.id}
               ELSE {}
    IN  [running |-> {IF \E a \in hit : a.inst = h.inst
                      THEN [h EXCEPT !.flag = TRUE] ELSE h : h \in futures},
         log |-> IF hit # {} THEN <<NotificationLine(0)>> ELSE <<>>]

\* cancel_response of a cancel arm that answers like a request
cancel_response_some(i) == success(i)

\* The Option<Response> of the cancel arm (server.rs:741).
cancel_response(i) == NoResponse

\* shutdown that leaves the callback in place and does not exit
shutdown_no_exit(callback) ==
    [calls |-> IF callback THEN 1 ELSE 0, callback |-> callback, exit |-> None]

\* The shutdown arm (server.rs:734-737): the times the callback runs, and the
\* exit code.
shutdown(callback) ==
    [calls |-> IF callback THEN 1 ELSE 0, callback |-> FALSE, exit |-> Some(0)]

\* handle_batch's early returns (server.rs:656-671)
handle_batch_early(l) ==
    IF l.kind = "badbatch" THEN <<ToResponse(0, parse_error)>>
    ELSE IF l.n = 0 THEN <<ToResponse(0, invalid_request("Empty batch"))>>
    ELSE <<>>

\* handle_message calls a line needs
Need(l) == IF l.kind \in {"single", "request"} THEN 1
           ELSE IF l.kind = "batch" THEN l.n ELSE 0

\* The value handle_message is given next.
NextValue == IF line.kind = "request" THEN {line} ELSE Values

\* handle_message returns resp for value req: handle_batch pushes it and
\* moves on, and run() writes the line's output after the last value.
Return(req, resp, info, out) ==
    /\ last' = info
    /\ batchReqs' = Append(batchReqs, Seen(req))
    /\ IF line.kind = "batch"
       THEN LET rs == IF resp = NoResponse THEN responses ELSE push(responses, resp)
            IN  /\ responses' = rs
                /\ left' = left - 1
                /\ IF left = 1
                   THEN /\ pc' = "read"
                        /\ stdout' = IF rs # <<>> THEN Append(out, ArrayLine(rs)) ELSE out
                   ELSE /\ pc' = "dispatch"
                        /\ stdout' = out
       ELSE /\ pc' = "read"
            /\ left' = 0
            /\ UNCHANGED responses
            /\ stdout' = IF resp # NoResponse THEN Append(out, ResponseLine(resp)) ELSE out

Info(inst, req, resp, pre, post, invoked, user, timedout, flag) ==
    [inst |-> inst, req |-> req, resp |-> resp, batch |-> line.kind = "batch",
     pre |-> pre, post |-> post, invoked |-> invoked, user |-> user,
     init_before |-> initialized, timed_out |-> timedout, flag |-> flag]

\* ------------------------------------------------------------------ actions
\* The client writes a line to the server's stdin.
Send ==
    /\ pc # "exited"
    /\ Len(stdin) < MaxPending
    /\ stdin' = Append(stdin, Opaque)
    /\ UNCHANGED <<others, config, shutdown_callback, initialized, active_requests, stdout,
                   pc, line, left, responses, batchReqs, cur, running, nreq,
                   exit_code, cleanups, last>>

\* While a handler is running the client sends `$/cancel` for its request.
SendCancel ==
    /\ pc = "await"
    /\ Len(stdin) < MaxPending
    /\ stdin' = Append(stdin, [target |-> cur.req.id, during |-> cur.inst])
    /\ UNCHANGED <<others, config, shutdown_callback, initialized, active_requests, stdout,
                   pc, line, left, responses, batchReqs, cur, running, nreq,
                   exit_code, cleanups, last>>

\* run(): the next line of stdin (server.rs:623-647), and handle_batch's
\* parse of a batch line (server.rs:656-673).
ReadLine ==
    /\ CanRead(pc)
    /\ pc # "exited"
    /\ stdin # <<>>
    /\ \E l \in Shapes \cup {CancelLine(i) : i \in Ids} :
        /\ IF Head(stdin).target = 0
           THEN l \in Shapes
           ELSE l = CancelLine(Head(stdin).target)
        /\ nreq + Need(l) <= MaxRequests
        /\ stdin' = Tail(stdin)
        /\ IF l.kind = "empty"
           THEN UNCHANGED <<line, left, responses, batchReqs, stdout, pc, last>>
           ELSE /\ line' = l
                /\ batchReqs' = <<>>
                /\ last' = NoLast
                /\ IF l.kind \in {"batch", "badbatch"} /\ handle_batch_early(l) # <<>>
                   THEN /\ responses' = IdsOf(handle_batch_early(l))
                        /\ stdout' = <<ArrayLine(IdsOf(handle_batch_early(l)))>>
                        /\ left' = 0
                        /\ pc' = "read"
                   ELSE /\ responses' = <<>>
                        /\ stdout' = <<>>
                        /\ left' = Need(l)
                        /\ pc' = "dispatch"
    /\ UNCHANGED <<others, config, shutdown_callback, initialized, active_requests, cur,
                   running, nreq, exit_code, cleanups>>

\* handle_message on a value that is no Request (server.rs:685-693)
ParseError ==
    /\ pc = "dispatch"
    /\ \E v \in NextValue :
        /\ v.kind = "garbage"
        /\ nreq' = nreq + 1
        /\ LET resp == ToResponse(0, parse_error)
           IN Return(v, resp,
                     Info(nreq + 1, v, resp, "skipped", NoPost, FALSE, FALSE, FALSE, FALSE),
                     stdout)
    /\ UNCHANGED <<others, config, shutdown_callback, initialized, active_requests, stdin,
                   line, cur, running, exit_code, cleanups>>

\* The pre-request hook rejects the request (server.rs:711-724)
PreReject ==
    /\ pc = "dispatch"
    /\ \E v \in NextValue :
        /\ v.kind = "request"
        /\ "reject" \in PreOutcomes(v)
        /\ nreq' = nreq + 1
        /\ LET resp == reject_response(v.id, HookError)
           IN Return(v, resp,
                     Info(nreq + 1, v, resp, "reject", PostHookRejected(HookError),
                          FALSE, FALSE, FALSE, FALSE),
                     stdout)
    /\ UNCHANGED <<others, config, shutdown_callback, initialized, active_requests, stdin,
                   line, cur, running, exit_code, cleanups>>

\* initialize (server.rs:731, 835-882)
Initialize ==
    /\ pc = "dispatch"
    /\ \E v \in NextValue, pre \in {"continue", "skipped"} :
        /\ v.kind = "request"
        /\ v.method = INITIALIZE
        /\ pre \in PreOutcomes(v)
        /\ nreq' = nreq + 1
        /\ LET r == handle_initialize(initialized, v.params)
               resp == ToResponse(v.id, r.result)
           IN  /\ initialized' = r.initialized
               /\ Return(v, resp,
                         Info(nreq + 1, v, resp, pre, PostHook(v.method, r.result),
                              FALSE, FALSE, FALSE, FALSE),
                         stdout)
    /\ UNCHANGED <<others, config, shutdown_callback, active_requests, stdin, line, cur,
                   running, exit_code, cleanups>>

\* shutdown (server.rs:732-738): the callback is taken and run, the process
\* exits with code 0.
Shutdown ==
    /\ pc = "dispatch"
    /\ \E v \in NextValue, pre \in {"continue", "skipped"} :
        /\ v.kind = "request"
        /\ v.method = SHUTDOWN
        /\ pre \in PreOutcomes(v)
        /\ nreq' = nreq + 1
        /\ batchReqs' = Append(batchReqs, Seen(v))
        /\ last' = Info(nreq + 1, v, NoResponse, pre, NoPost, FALSE, FALSE, FALSE, FALSE)
    /\ cleanups' = cleanups + shutdown(shutdown_callback).calls
    /\ shutdown_callback' = shutdown(shutdown_callback).callback
    /\ exit_code' = shutdown(shutdown_callback).exit
    /\ pc' = IF shutdown(shutdown_callback).exit # None THEN "exited" ELSE "dispatch"
    /\ UNCHANGED <<others, config, initialized, active_requests, stdin, stdout, line, left,
                   responses, cur, running>>

\* $/cancel (server.rs:739-742, 819-833)
Cancel ==
    /\ pc = "dispatch"
    /\ \E v \in NextValue, pre \in {"continue", "skipped"} :
        /\ v.kind = "request"
        /\ v.method = CANCEL
        /\ pre \in PreOutcomes(v)
        /\ nreq' = nreq + 1
        /\ LET c == handle_cancel(v.params, active_requests, running)
               resp == cancel_response(v.id)
           IN  /\ running' = c.running
               /\ Return(v, resp,
                         Info(nreq + 1, v, resp, pre, NoPost, FALSE, FALSE, FALSE, FALSE),
                         stdout \o c.log)
    /\ UNCHANGED <<others, config, shutdown_callback, initialized, active_requests, stdin,
                   line, cur, exit_code, cleanups>>

\* $/ping (server.rs:743-746)
Ping ==
    /\ pc = "dispatch"
    /\ \E v \in NextValue, pre \in {"continue", "skipped"} :
        /\ v.kind = "request"
        /\ v.method = PING
        /\ pre \in PreOutcomes(v)
        /\ nreq' = nreq + 1
        /\ LET resp == ToResponse(v.id, Ok)
           IN Return(v, resp,
                     Info(nreq + 1, v, resp, pre, PostHook(v.method, Ok),
                          FALSE, FALSE, FALSE, FALSE),
                     stdout)
    /\ UNCHANGED <<others, config, shutdown_callback, initialized, active_requests, stdin,
                   line, cur, running, exit_code, cleanups>>

IsOther(m) == m \notin {INITIALIZE, SHUTDOWN, CANCEL, PING}

\* Any other method that gets no handler: the server is not initialized
\* (server.rs:748-749) or the method is not registered (server.rs:792-794).
DispatchError ==
    /\ pc = "dispatch"
    /\ \E v \in NextValue, pre \in {"continue", "skipped"} :
        /\ v.kind = "request"
        /\ IsOther(v.method)
        /\ pre \in PreOutcomes(v)
        /\ route(initialized, handlers, v.method) # "handler"
        /\ nreq' = nreq + 1
        /\ LET result == IF route(initialized, handlers, v.method) = "not_initialized"
                         THEN invalid_request("Server not initialized")
                         ELSE method_not_found
               resp == ToResponse(v.id, result)
           IN Return(v, resp,
                     Info(nreq + 1, v, resp, pre, PostHook(v.method, result),
                          FALSE, FALSE, FALSE, FALSE),
                     stdout)
    /\ UNCHANGED <<others, config, shutdown_callback, initialized, active_requests, stdin,
                   line, cur, running, exit_code, cleanups>>

\* A registered method of an initialized server (server.rs:750-783): the
\* context is made, the request registered as active and the handler's future
\* polled. The wrapper of method()/method_with_timeout() returns INVALID_PARAMS
\* at once, without calling the plugin's function, when the params are
\* missing or do not deserialize (server.rs:516-519); otherwise the plugin's
\* function starts and handle_message waits for it.
HandlerStart ==
    /\ pc = "dispatch"
    /\ \E v \in NextValue, pre \in {"continue", "skipped"} :
        /\ v.kind = "request"
        /\ IsOther(v.method)
        /\ pre \in PreOutcomes(v)
        /\ route(initialized, handlers, v.method) = "handler"
        /\ nreq' = nreq + 1
        /\ LET h == CHOOSE x \in GetHandler(handlers, v.method) : TRUE
               inst == nreq + 1
           IN  IF h.takes_params /\ v.params.tag # "valid"
               THEN LET result == invalid_params(IF v.params.tag = "missing"
                                                 THEN "Missing params"
                                                 ELSE "invalid params")
                        resp == ToResponse(v.id, result)
                    IN  /\ active_requests' =
                              ActiveRemove(ActiveInsert(active_requests, v.id, inst), v.id)
                        /\ Return(v, resp,
                                  Info(inst, v, resp, pre, PostHook(v.method, result),
                                       TRUE, FALSE, FALSE, FALSE),
                                  stdout)
                        /\ UNCHANGED <<cur, running>>
               ELSE /\ active_requests' = ActiveInsert(active_requests, v.id, inst)
                    /\ running' = running \cup
                          {[inst |-> inst, flag |-> FALSE,
                            timeout |-> effective_timeout(h, default_timeout)]}
                    /\ cur' = [inst |-> inst, req |-> v, pre |-> pre]
                    /\ pc' = "await"
                    /\ UNCHANGED <<stdout, left, responses, batchReqs, last>>
    /\ UNCHANGED <<others, config, shutdown_callback, initialized, stdin, line, exit_code,
                   cleanups>>

\* The plugin's function calls notify_progress / notify_log (server.rs:128-162).
HandlerNotify ==
    /\ Cardinality(Notifications(stdout)) < MaxNotes
    /\ \E h \in running :
        stdout' = Append(stdout, NotificationLine(h.inst))
    /\ UNCHANGED <<others, config, shutdown_callback, initialized, active_requests, stdin,
                   pc, line, left, responses, batchReqs, cur, running, nreq,
                   exit_code, cleanups, last>>

\* What the plugin's function returns: it polls ctx.is_cancelled() and
\* returns RpcError::cancelled() once the flag is set (server.rs:211-220).
HandlerResults(h) == IF h.flag THEN {cancelled} ELSE {Ok, internal_error}

\* The handler's future completes (server.rs:771, 782); the request is
\* unregistered, the post hook runs and the response is returned
\* (server.rs:785-816).
HandlerReturn ==
    /\ pc = "await"
    /\ \E h \in running, result \in {Ok, internal_error, cancelled} :
        /\ h.inst = cur.inst
        /\ result \in HandlerResults(h)
        /\ running' = running \ {h}
        /\ active_requests' = ActiveRemove(active_requests, cur.req.id)
        /\ LET resp == ToResponse(cur.req.id, result)
           IN Return(cur.req, resp,
                     Info(cur.inst, cur.req, resp, cur.pre,
                          PostHook(cur.req.method, result),
                          TRUE, TRUE, FALSE, h.flag),
                     stdout)
    /\ cur' = NoCur
    /\ UNCHANGED <<others, config, shutdown_callback, initialized, stdin, line, nreq,
                   exit_code, cleanups>>

\* The timeout elapses before the handler completes (server.rs:772-779): the
\* handle is cancelled, the future dropped and REQUEST_CANCELLED returned.
TimeoutFire ==
    /\ pc = "await"
    /\ \E h \in running :
        /\ h.inst = cur.inst
        /\ h.timeout # None
        /\ running' = drop_future(running, h)
        /\ active_requests' = ActiveRemove(active_requests, cur.req.id)
        /\ LET result == timed_out(h.timeout[1])
               resp == ToResponse(cur.req.id, result)
           IN Return(cur.req, resp,
                     Info(cur.inst, cur.req, resp, cur.pre,
                          PostHook(cur.req.method, result),
                          TRUE, TRUE, TRUE, TRUE),
                     stdout)
    /\ cur' = NoCur
    /\ UNCHANGED <<others, config, shutdown_callback, initialized, stdin, line, nreq,
                   exit_code, cleanups>>

Next ==
    \/ Send
    \/ SendCancel
    \/ ReadLine
    \/ ParseError
    \/ PreReject
    \/ Initialize
    \/ Shutdown
    \/ Cancel
    \/ Ping
    \/ DispatchError
    \/ HandlerStart
    \/ HandlerNotify
    \/ HandlerReturn
    \/ TimeoutFire

Spec == Init /\ [][Next]_vars

\* --------------------------------------------------------- the builder alone
\* Names a plugin may register.
RegNames == {"backend.run", "format.load_tensor", "backend.custom", "format.",
             "$/status", "compile"}

\* InitializeResult { capabilities: self.capabilities.clone(), .. }
InitializeResult(caps) == [capabilities |-> caps]

\* PluginServer::new with no builder call made yet.
Unbuilt ==
    /\ handlers = NewServer.handlers
    /\ capabilities = NewServer.capabilities
    /\ default_timeout = None
    /\ pre_request_hook = FALSE
    /\ post_request_hook = FALSE
    /\ shutdown_callback = FALSE
    /\ initialized = FALSE
    /\ active_requests = {}
    /\ stdin = <<>>
    /\ stdout = <<>>
    /\ pc = "read"
    /\ line = EmptyLine
    /\ left = 0
    /\ responses = <<>>
    /\ batchReqs = <<>>
    /\ cur = NoCur
    /\ running = {}
    /\ nreq = 0
    /\ exit_code = None
    /\ cleanups = 0
    /\ last = NoLast
    /\ nregs = 0
    /\ init_result = None

RegInit == Unbuilt /\ TensorIdle

Registered(srv) ==
    /\ ~initialized
    /\ nregs < MaxRegistrations
    /\ nregs' = nregs + 1
    /\ handlers' = srv.handlers
    /\ capabilities' = srv.capabilities
    /\ UNCHANGED <<run_vars, tensor_vars, initialized, init_result>>

RegMethod ==
    \E name \in RegNames :
        Registered(method([handlers |-> handlers, capabilities |-> capabilities], name))

RegMethodWithTimeout ==
    \E name \in RegNames :
        Registered(method_with_timeout([handlers |-> handlers, capabilities |-> capabilities],
                                       name, MethodTimeout))

RegMethodNoParams ==
    \E name \in RegNames :
        Registered(method_no_params([handlers |-> handlers, capabilities |-> capabilities],
                                    name))

\* The first well-formed initialize request of the run (server.rs:835-882).
RegInitialize ==
    /\ ~initialized
    /\ LET r == handle_initialize(initialized, OkParams)
       IN  /\ initialized' = r.initialized
           /\ init_result' = IF r.result = Ok
                             THEN Some(InitializeResult(capabilities))
                             ELSE None
    /\ UNCHANGED <<run_vars, tensor_vars, handlers, capabilities, nregs>>

RegNext ==
    \/ RegMethod
    \/ RegMethodWithTimeout
    \/ RegMethodNoParams
    \/ RegInitialize

RegSpec == RegInit /\ [][RegNext]_<<vars, others>>


\* --------------------------------------------------------- a tensor program
\* The tensors the program starts from, with the ids 1..9.
Transposed(shape) == [shape |-> shape, strides |-> <<1, shape[1]>>, offset |-> 0]

\* A contiguous view that starts at an element of a longer buffer.
Sliced(shape, offset) == [from_shape(shape) EXCEPT !.offset = offset]

Inputs ==
    {Tensor(1, from_shape(<<2, 2>>), "f32", "cpu", TRUE, TRUE),
     Tensor(2, from_shape(<<2, 3>>), "f32", "cpu", TRUE, TRUE),
     Tensor(3, from_shape(<<2>>), "f32", "cpu", FALSE, TRUE),
     Tensor(4, from_shape(<<3, 2, 2>>), "f32", "cpu", TRUE, TRUE),
     Tensor(5, Transposed(<<2, 2>>), "i32", "cpu", TRUE, TRUE),
     Tensor(6, Sliced(<<2>>, 1), "i32", "cpu", FALSE, TRUE),
     Tensor(7, from_shape(<<3>>), "i32", "cpu", FALSE, TRUE),
     Tensor(8, from_shape(<<2, 2>>), "i64", "cpu", FALSE, TRUE),
     Tensor(9, from_shape(<<2>>), "i32", "metal", FALSE, TRUE)}

Shifts == {1}

\* The program starts with its tensors made, capturing or not.
TensorInit ==
    /\ Unbuilt
    /\ BackendIdle
    /\ tri_call = NoTriCall
    /\ UnitsIdle
    /\ capture_active \in BOOLEAN
    /\ snapshot = <<>>
    /\ tape = <<>>
    /\ created = Cardinality(Inputs)
    /\ launched = <<>>
    /\ produced = <<>>
    /\ call = NoCall

\* The tensors a call can be made on: those the program started from and
\* those its calls returned.
Operands == Inputs \cup {produced[i] : i \in 1..Len(produced)}

TheWorld == World(snapshot, tape, created, launched)

\* The ops whose execute branch reads gradient::is_computing_gradients(): the
\* bitwise macros never do.
ReadsComputing(op) == op \in LinalgOps \cup {"solve"}

\* A call of the program: it goes on after a call that returned Ok. It keeps
\* what is_computing_gradients() was when the call read it.
Called(op, args, shift) ==
    /\ call.err = "none"
    /\ Len(produced) < MaxCalls
    /\ \E o \in Oracles :
        \E r \in {Facade(op, TheWorld, args, shift, capture_active, features, o)} :
            /\ snapshot' = r.w.snapshot
            /\ tape' = r.w.tape
            /\ created' = r.w.created
            /\ launched' = r.w.launched
            /\ produced' = IF r.err = "none" THEN Append(produced, r.tensor) ELSE produced
            /\ call' = [op |-> op, args |-> args, shift |-> shift, err |-> r.err,
                        tensor |-> r.tensor, before |-> TheWorld,
                        allocated |-> r.w.allocated,
                        computing |-> o.computing /\ ReadsComputing(op)]
    /\ UNCHANGED <<vars, builder_vars, backend_vars, tri_call, unit_vars, capture_active>>

CallDet == \E x \in Operands : Called("det", <<x>>, 0)
CallInv == \E x \in Operands : Called("inv", <<x>>, 0)
CallTrace == \E x \in Operands : Called("trace", <<x>>, 0)
CallSolve == \E x, b \in Operands : Called("solve", <<x, b>>, 0)
CallShl == \E x, y \in Operands : Called("shl", <<x, y>>, 0)
CallShr == \E x, y \in Operands : Called("shr", <<x, y>>, 0)
CallBitwiseAnd == \E x, y \in Operands : Called("bitwise_and", <<x, y>>, 0)
CallBitwiseOr == \E x, y \in Operands : Called("bitwise_or", <<x, y>>, 0)
CallBitwiseXor == \E x, y \in Operands : Called("bitwise_xor", <<x, y>>, 0)
CallBitwiseNot == \E x \in Operands : Called("bitwise_not", <<x>>, 0)
CallShlScalar == \E x \in Operands, s \in Shifts : Called("shl_scalar", <<x>>, s)
CallShrScalar == \E x \in Operands, s \in Shifts : Called("shr_scalar", <<x>>, s)

TensorNext ==
    \/ CallDet
    \/ CallInv
    \/ CallTrace
    \/ CallSolve
    \/ CallShl
    \/ CallShr
    \/ CallBitwiseAnd
    \/ CallBitwiseOr
    \/ CallBitwiseXor
    \/ CallBitwiseNot
    \/ CallShlScalar
    \/ CallShrScalar

TensorSpec == TensorInit /\ [][TensorNext]_<<vars, others>>

\* ------------------------------------------------- the dispatch called alone
\* The other dtype a second operand can have.
OtherDType(dtype) == IF dtype = "u8" THEN "f32" ELSE "u8"

\* The calls of the bitwise dispatch functions: the backend, the function by
\* the variant of Op it takes, the op handed in and the dtypes of the storages.
StorageCalls(feats) ==
    {[backend |-> b, fn |-> f, op |-> op, lhs |-> l, rhs |-> r, fault |-> "none",
      state |-> "pending", err |-> "none", storage |-> NoStorage, launched |-> <<>>] :
        b \in Backends,
        f \in {"BitwiseBinary", "BitwiseUnary", "BitwiseUnaryScalar"},
        op \in BitwiseOps,
        l \in StorageDTypes(feats),
        r \in StorageDTypes(feats)}

\* The second operand of a unary function is the first.
WellFormed(c) ==
    /\ c.rhs \in {c.lhs, OtherDType(c.lhs)}
    /\ c.fn # "BitwiseBinary" => c.rhs = c.lhs

\* The build has its features and one call of a dispatch function is to be made.
BackendInit ==
    /\ Unbuilt
    /\ ProgramIdle
    /\ tri_call = NoTriCall
    /\ UnitsIdle
    /\ features \in {{}, {"u16"}, FeatureDTypes}
    /\ storage_call \in {c \in StorageCalls(features) : WellFormed(c)}

\* The call to be made is the call of this function of this backend.
Pending(backend, fn) ==
    /\ storage_call.state = "pending"
    /\ storage_call.backend = backend
    /\ storage_call.fn = fn

\* The call returns.
StorageCalled(backend, fn) ==
    /\ \E o \in BackendOracles :
        \E r \in {call_ops_bitwise(fn, Storage(backend, storage_call.lhs),
                                   Storage(backend, storage_call.rhs), storage_call.op,
                                   features, o)} :
            storage_call' = [storage_call EXCEPT !.state = "returned", !.fault = o.fault,
                                                 !.err = r.err, !.storage = r.storage,
                                                 !.launched = r.launched]
    /\ UNCHANGED <<vars, builder_vars, program_vars, tri_call, unit_vars, features>>

CpuBitwiseBinary == Pending("cpu", "BitwiseBinary") /\ StorageCalled("cpu", "BitwiseBinary")
CpuBitwiseUnary == Pending("cpu", "BitwiseUnary") /\ StorageCalled("cpu", "BitwiseUnary")
CpuBitwiseUnaryScalar == Pending("cpu", "BitwiseUnaryScalar") /\ StorageCalled("cpu", "BitwiseUnaryScalar")
CudaBitwiseBinary == Pending("cuda", "BitwiseBinary") /\ StorageCalled("cuda", "BitwiseBinary")
CudaBitwiseUnary == Pending("cuda", "BitwiseUnary") /\ StorageCalled("cuda", "BitwiseUnary")
CudaBitwiseUnaryScalar == Pending("cuda", "BitwiseUnaryScalar") /\ StorageCalled("cuda", "BitwiseUnaryScalar")
MetalBitwiseBinary == Pending("metal", "BitwiseBinary") /\ StorageCalled("metal", "BitwiseBinary")
MetalBitwiseUnary == Pending("metal", "BitwiseUnary") /\ StorageCalled("metal", "BitwiseUnary")
MetalBitwiseUnaryScalar == Pending("metal", "BitwiseUnaryScalar") /\ StorageCalled("metal", "BitwiseUnaryScalar")

BackendNext ==
    \/ CpuBitwiseBinary
    \/ CpuBitwiseUnary
    \/ CpuBitwiseUnaryScalar
    \/ CudaBitwiseBinary
    \/ CudaBitwiseUnary
    \/ CudaBitwiseUnaryScalar
    \/ MetalBitwiseBinary
    \/ MetalBitwiseUnary
    \/ MetalBitwiseUnaryScalar

BackendSpec == BackendInit /\ [][BackendNext]_<<vars, others>>

\* --------------------------------------------------- tril and triu called
\* The inputs: vectors and matrices of these sides, with these elements.
Sides == {1, 2}
Diagonals == {-1, 0, 1}
Elements(dtype) ==
    IF dtype = "f32" THEN {Num(0), Num(1), Num(-2), Inf, NaN}
    ELSE {Num(0), Num(1), Num(-2)}

TriShapes == {<<n>> : n \in Sides} \cup (Sides \X Sides)

TriInputs ==
    UNION {UNION {{Data(shape, dtype, at) : at \in [Indices(shape) -> Elements(dtype)]} :
                    shape \in TriShapes} :
             dtype \in {"f32", "i32"}}

\* One call of tril or triu is to be made.
TriInit ==
    /\ Unbuilt
    /\ ProgramIdle
    /\ BackendIdle
    /\ UnitsIdle
    /\ tri_call \in {[fn |-> f, self |-> x, diagonal |-> k, state |-> "pending",
                      err |-> "none", out |-> NoData] :
                        f \in {"tril", "triu"}, x \in TriInputs, k \in Diagonals}

\* The call returns.
TriCalled(fn, r) ==
    /\ tri_call.state = "pending"
    /\ tri_call.fn = fn
    /\ tri_call' = [tri_call EXCEPT !.state = "returned", !.err = r.err, !.out = r.out]
    /\ UNCHANGED <<vars, builder_vars, program_vars, backend_vars, unit_vars>>

CallTril == \E r \in {tril(tri_call.self, tri_call.diagonal)} : TriCalled("tril", r)

CallTriu == \E r \in {triu(tri_call.self, tri_call.diagonal)} : TriCalled("triu", r)

TriNext ==
    \/ CallTril
    \/ CallTriu

TriSpec == TriInit /\ [][TriNext]_<<vars, others>>

\* ------------------------------------------------------ diag called twice
\* The vectors diag is called on and the offsets.
DiagVectors ==
    UNION {{Data(<<n>>, "f32", at) : at \in [Indices(<<n>>) -> {Num(1), Num(2)}]} :
             n \in 0..MaxLen}

DiagOffsets == (0 - MaxDiag)..MaxDiag

\* diag(v, k) is to be called, and diag(_, k) on what it returns.
DiagInit ==
    /\ Unbuilt
    /\ ProgramIdle
    /\ BackendIdle
    /\ tri_call = NoTriCall
    /\ ParseIdle
    /\ SaveIdle
    /\ LaunchIdle
    /\ diag_call \in {[state |-> "pending", v |-> v, k |-> k, err |-> "none",
                       matrix |-> NoData, out |-> NoData] :
                        v \in DiagVectors, k \in DiagOffsets}

\* What a step of the round trip leaves alone.
DiagFrame == UNCHANGED <<vars, builder_vars, program_vars, backend_vars, tri_call,
                         parse_call, save_call, launch_call>>

\* diag(v, k): the matrix with v on its k-th diagonal.
DiagOfVector ==
    /\ diag_call.state = "pending"
    /\ \E outcome \in ScatterOutcomes :
        \E r \in {diag(diag_call.v, diag_call.k, outcome)} :
            diag_call' = [diag_call EXCEPT
                            !.state = IF r.err = "none" THEN "built" ELSE "failed",
                            !.err = r.err, !.matrix = r.out]
    /\ DiagFrame

\* diag(m, k): the k-th diagonal of the matrix.
DiagOfMatrix ==
    /\ diag_call.state = "built"
    /\ \E r \in {diag(diag_call.matrix, diag_call.k, "error")} :
        diag_call' = [diag_call EXCEPT
                        !.state = IF r.err = "none" THEN "extracted" ELSE "failed",
                        !.err = r.err, !.out = r.out]
    /\ DiagFrame

DiagNext ==
    \/ DiagOfVector
    \/ DiagOfMatrix

DiagSpec == DiagInit /\ [][DiagNext]_<<vars, others>>

\* ------------------------------------------------- parse_device_id called
\* The device strings: every string of these characters up to MaxStr long.
DeviceChars == {"c", ":", "0", "1", "9", "+"}

DeviceStrings == UNION {[1..n -> DeviceChars] : n \in 0..MaxStr}

ParseInit ==
    /\ Unbuilt
    /\ ProgramIdle
    /\ BackendIdle
    /\ tri_call = NoTriCall
    /\ DiagIdle
    /\ SaveIdle
    /\ LaunchIdle
    /\ parse_call \in {[state |-> "pending", device |-> d, result |-> None] :
                        d \in DeviceStrings}

\* parse_device_id(device) returns.
ParseDeviceId ==
    /\ parse_call.state = "pending"
    /\ parse_call' = [parse_call EXCEPT !.state = "returned",
                                        !.result = parse_device_id(parse_call.device)]
    /\ UNCHANGED <<vars, builder_vars, program_vars, backend_vars, tri_call, diag_call,
                   save_call, launch_call>>

ParseNext == ParseDeviceId

ParseSpec == ParseInit /\ [][ParseNext]_<<vars, others>>

\* ---------------------------------------------------- save_outputs called
\* The output names: every string of these characters up to two long.
NameChars == {"a", "/", "\\", ".", "NUL", ":"}

OutputNames == UNION {[1..n -> NameChars] : n \in 0..2}

Formats == {"hdt", "JSON", "bin"}

Platforms == {"unix", "windows"}

\* The ways plugin_dtype_to_core, Tensor::from_bytes and the save of a format
\* can go for an output.
SaveFaults == {"none", "tensor", "save"}

\* The sets of at most k output names.
RECURSIVE NameSets(_)
NameSets(k) ==
    IF k = 0 THEN {{}}
    ELSE NameSets(k - 1) \cup {ns \cup {name} : ns \in NameSets(k - 1), name \in OutputNames}

SaveInit ==
    /\ Unbuilt
    /\ ProgramIdle
    /\ BackendIdle
    /\ tri_call = NoTriCall
    /\ DiagIdle
    /\ ParseIdle
    /\ LaunchIdle
    /\ save_call \in {[state |-> "pending", outputs |-> names, format |-> f,
                       platform |-> p, err |-> "none", files |-> {}] :
                        names \in NameSets(MaxOutputs),
                        f \in Formats, p \in Platforms}

\* The orders a HashMap of these names can be iterated in.
Orders(names) ==
    {o \in [1..Cardinality(names) -> names] : \A i, j \in 1..Cardinality(names) :
                                                    o[i] = o[j] => i = j}

\* save_outputs returns.
SaveOutputs ==
    /\ save_call.state = "pending"
    /\ \E order \in Orders(save_call.outputs), dir_fault \in BOOLEAN,
          fault \in [save_call.outputs -> SaveFaults] :
        \E r \in {save_outputs(order, save_call.format, save_call.platform, dir_fault, fault)} :
            save_call' = [save_call EXCEPT !.state = "returned", !.err = r.err,
                                           !.files = r.files]
    /\ UNCHANGED <<vars, builder_vars, program_vars, backend_vars, tri_call, diag_call,
                   parse_call, launch_call>>

SaveNext == SaveOutputs

SaveSpec == SaveInit /\ [][SaveNext]_<<vars, others>>

\* ------------------------------------------------- a launcher called on its own
\* Element counts around the multiples of 2^32, up to MaxWraps of them.
ElementCounts ==
    {Count(w * U32Blocks + d, r) :
        w \in 0..MaxWraps, d \in 0..2, r \in {0, 1, BlockSize - 1}}
    \cup {Count(w * U32Blocks - 1, r) : w \in 1..MaxWraps, r \in {0, 1, BlockSize - 1}}

Launchers == {"call_ops_binary_bitwise", "call_ops_unary_bitwise", "call_ops_scalar_shift"}

LaunchInit ==
    /\ Unbuilt
    /\ ProgramIdle
    /\ BackendIdle
    /\ tri_call = NoTriCall
    /\ DiagIdle
    /\ ParseIdle
    /\ SaveIdle
    /\ launch_call \in {[state |-> "pending", fn |-> f, num_els |-> n, err |-> "none",
                         cfg |-> NoLaunchConfig] :
                          f \in Launchers, n \in ElementCounts}

\* The launcher returns r.
Launched(r) ==
    /\ launch_call' = [launch_call EXCEPT !.state = "returned", !.err = r.err,
                                          !.cfg = r.cfg]
    /\ UNCHANGED <<vars, builder_vars, program_vars, backend_vars, tri_call, diag_call,
                   parse_call, save_call>>

LaunchBinaryBitwise ==
    /\ launch_call.state = "pending"
    /\ launch_call.fn = "call_ops_binary_bitwise"
    /\ \E fault \in LaunchFaults :
        Launched(call_ops_binary_bitwise(launch_call.num_els, fault))

LaunchUnaryBitwise ==
    /\ launch_call.state = "pending"
    /\ launch_call.fn = "call_ops_unary_bitwise"
    /\ \E fault \in LaunchFaults :
        Launched(call_ops_unary_bitwise(launch_call.num_els, fault))

LaunchScalarShift ==
    /\ launch_call.state = "pending"
    /\ launch_call.fn = "call_ops_scalar_shift"
    /\ \E fault \in LaunchFaults :
        Launched(call_ops_scalar_shift(launch_call.num_els, fault))

LaunchNext ==
    \/ LaunchBinaryBitwise
    \/ LaunchUnaryBitwise
    \/ LaunchScalarShift

LaunchSpec == LaunchInit /\ [][LaunchNext]_<<vars, others>>


\* ------------------------------------------------------------------- claims
IsRequest(c) == c.inst # 0 /\ c.req.kind = "request"

ResponseLines(out) == {i \in 1..Len(out) : out[i].kind \in {"response", "array"}}

\* C1 as first stated: while the server is uninitialized every parsed request
\* whose method is not initialize, shutdown, $/cancel or $/ping gets
\* INVALID_REQUEST "Server not initialized", no handler is invoked and the
\* server stays uninitialized.
C1_NotInitializedAlways ==
    (IsRequest(last) /\ ~last.init_before
        /\ last.req.method \notin {"initialize", "shutdown", "$/cancel", "$/ping"})
    => /\ last.resp.code = "INVALID_REQUEST"
       /\ last.resp.msg = "Server not initialized"
       /\ ~last.invoked
       /\ ~initialized

\* C1 amended: for every such request no handler is invoked and the server
\* stays uninitialized, and unless the pre-request hook rejected the request
\* the response is INVALID_REQUEST "Server not initialized"; no handler runs
\* on an uninitialized server.
C1_NotInitialized ==
    /\ (IsRequest(last) /\ ~last.init_before
           /\ last.req.method \notin {"initialize", "shutdown", "$/cancel", "$/ping"})
       => /\ last.pre # "reject" =>
                last.resp = Response(last.req.id, "INVALID_REQUEST",
                                     "Server not initialized", 0)
          /\ last.resp.code # "OK"
          /\ ~last.invoked
          /\ ~initialized
    /\ ~initialized => (running = {} /\ pc # "await" /\ active_requests = {})

\* An uninitialized server has answered a request for a registered method that
\* the installed pre-request hook let through.
C1_Witness ==
    /\ IsRequest(last) /\ ~last.init_before /\ last.pre = "continue"
    /\ last.req.method = "backend.run"
    /\ last.resp.code = "INVALID_REQUEST"

\* C2: a `$/cancel {id: X}` written while the handler of request X was running
\* sets X's flag and X is answered with REQUEST_CANCELLED. Stated for the
\* answer: once the call is answered, with that cancel written during it, the
\* flag is set and the code is REQUEST_CANCELLED.
C2_CancelReachesHandler ==
    \A i \in 1..Len(stdin) :
        (stdin[i].target # 0 /\ last.inst # 0 /\ stdin[i].during = last.inst
            /\ stdin[i].target = last.req.id)
        => (last.flag /\ last.resp.code = "REQUEST_CANCELLED")

\* C3: once initialized the server stays initialized, and an initialize
\* request to an initialized server fails with INVALID_REQUEST "Already
\* initialized".
C3_Reinitialize ==
    /\ [](IsRequest(last) /\ last.req.method = "initialize" /\ last.init_before
            => /\ last.resp = Response(last.req.id, "INVALID_REQUEST", "Already initialized", 0)
               /\ initialized)
    /\ [][initialized => initialized']_vars

\* A well-formed initialize request has been refused by an initialized server.
C3_Witness ==
    /\ IsRequest(last) /\ last.req.method = "initialize" /\ last.init_before
    /\ last.req.params = OkParams
    /\ last.resp.code = "INVALID_REQUEST"

LineOver == pc = "exited" \/ (pc = "read" /\ left = 0)

AllRequests(seen) == \A k \in 1..Len(seen) : seen[k].class \in {"request", "shutdown"}

ArrayWritten(seen) ==
    /\ Cardinality(ResponseLines(stdout)) = 1
    /\ stdout[Len(stdout)].kind = "array"
    /\ Len(stdout[Len(stdout)].ids) = Len(seen)
    /\ \A k \in 1..Len(seen) : stdout[Len(stdout)].ids[k] = seen[k].id

\* C5 as first stated: for a batch line of N requests and no notifications
\* the server writes one array of N responses, the i-th with the i-th id.
C5_BatchOrderAlways ==
    (line.kind = "batch" /\ LineOver /\ AllRequests(batchReqs)
        /\ (pc = "read" => Len(batchReqs) = line.n))
    => (stdout # <<>> /\ Len(batchReqs) = line.n /\ ArrayWritten(batchReqs))

\* C5 amended: the same for a batch line of N >= 1 requests none of which is
\* a `$/cancel` notification or a shutdown request.
C5_BatchOrder ==
    (line.kind = "batch" /\ line.n >= 1 /\ pc = "read" /\ left = 0
        /\ Len(batchReqs) = line.n
        /\ \A k \in 1..Len(batchReqs) : batchReqs[k].class = "request")
    => (stdout # <<>> /\ ArrayWritten(batchReqs) /\ responses = stdout[Len(stdout)].ids)

\* A batch of two requests with different ids has been answered.
C5_Witness ==
    /\ line.kind = "batch" /\ pc = "read" /\ left = 0 /\ Len(batchReqs) = 2
    /\ batchReqs[1].class = "request" /\ batchReqs[2].class = "request"
    /\ batchReqs[1].id = 2 /\ batchReqs[2].id = 1
    /\ last.user

\* The timeout of a method as the claim words it: the one registered for the
\* method if there is one, otherwise the server's default.
ClaimTimeout(m) ==
    LET own == {h \in handlers : h.name = m /\ h.timeout # None}
    IN  IF own # {} THEN (CHOOSE h \in own : TRUE).timeout ELSE default_timeout

\* C6: a handler is timed out only under its effective timeout d; the server
\* then sets the flag, drops the future and answers REQUEST_CANCELLED
\* "Request timed out after d". With no timeout at all it is never timed out.
C6_Timeout ==
    /\ \A h \in running : pc = "await" => h.timeout = ClaimTimeout(cur.req.method)
    /\ pc = "await" =>
         (ENABLED TimeoutFire <=> ClaimTimeout(cur.req.method) # None)
    /\ (last.inst # 0 /\ last.timed_out)
       => /\ ClaimTimeout(last.req.method) # None
          /\ last.resp = Response(last.req.id, "REQUEST_CANCELLED",
                                  "Request timed out after",
                                  ClaimTimeout(last.req.method)[1])
          /\ last.flag
          /\ \A h \in running : h.inst # last.inst
          /\ \A a \in active_requests : a.inst # last.inst

\* A method with its own timeout has been timed out after that duration on a
\* server that also has a default timeout.
C6_Witness ==
    /\ last.inst # 0 /\ last.timed_out
    /\ last.req.method = "format.load_tensor"
    /\ default_timeout = Some(DefaultTimeout)
    /\ last.resp.arg = MethodTimeout

\* C7: a `$/cancel` message gets no response: handle_message returns none for
\* it, a single cancel line writes no response line, and in a batch the
\* responses are exactly those of the other values.
C7_CancelSilent ==
    /\ (IsRequest(last) /\ last.req.method = "$/cancel")
       => /\ last.resp = NoResponse
          /\ ~last.batch => ResponseLines(stdout) = {}
    /\ (line.kind = "batch" /\ line.n >= 1)
       => /\ Len(responses) =
               Cardinality({k \in 1..Len(batchReqs) :
                               batchReqs[k].class \in {"request", "garbage"}})
          /\ (LineOver /\ \A k \in 1..Len(batchReqs) : batchReqs[k].class = "notification")
             => ResponseLines(stdout) = {}

\* An initialized server has finished a batch of a request and a well-formed
\* cancel, with one response.
C7_Witness ==
    /\ initialized /\ line.kind = "batch" /\ pc = "read" /\ left = 0
    /\ Len(batchReqs) = 2 /\ batchReqs[1].class = "request"
    /\ IsRequest(last) /\ last.req.method = "$/cancel" /\ last.req.params.tag = "valid"
    /\ Len(responses) = 1

\* The call was cancelled: its handler saw the flag, or it was timed out.
Cancelled(c) == c.inst # 0 /\ c.user /\ (c.timed_out \/ c.flag)

\* C8: a cancelled call is answered with REQUEST_CANCELLED, and no
\* notification of its handler follows the response: the only future that can
\* write is the one the server is waiting for, which has no response yet.
C8_CancelledQuiet ==
    /\ Cancelled(last) => last.resp.code = "REQUEST_CANCELLED"
    /\ \A h \in running : pc = "await" /\ h.inst = cur.inst /\ h.inst # last.inst
    /\ \A i \in ResponseLines(stdout) : \A j \in Notifications(stdout) :
          (j > i) => stdout[j].from # last.inst

\* A handler wrote a notification and was then timed out and answered.
C8_Witness ==
    /\ Cancelled(last) /\ ~last.batch /\ Len(stdout) = 2
    /\ stdout[1] = NotificationLine(last.inst)
    /\ stdout[2] = ResponseLine(last.resp)

ClaimInternal(m) ==
    \/ m \in {"initialize", "shutdown"}
    \/ (Len(Chars(m)) >= 2 /\ Chars(m)[1] = "$" /\ Chars(m)[2] = "/")

\* C10: neither hook is invoked for initialize, shutdown or a "$/" method.
C10_HooksSkipped ==
    /\ (IsRequest(last) /\ ClaimInternal(last.req.method))
       => (last.pre = "skipped" /\ ~last.post.called)
    /\ (pc = "await" /\ ClaimInternal(cur.req.method)) => cur.pre = "skipped"

\* With both hooks installed, the handler of "$/status" has run and returned.
C10_Witness ==
    /\ pre_request_hook /\ post_request_hook
    /\ IsRequest(last) /\ last.req.method = "$/status" /\ last.user

\* What handle_message may answer to a request that is dispatched, as the
\* dispatch reads without any hook: the response and whether the method's
\* handler was invoked.
Dispatched(c) ==
    LET m == c.req.method
        registered == \E h \in handlers : h.name = m
    IN  CASE m = "initialize" ->
               /\ ~c.invoked
               /\ c.resp.id = c.req.id
               /\ IF c.init_before THEN c.resp.code = "INVALID_REQUEST"
                  ELSE IF c.req.params.tag = "valid" THEN c.resp.code = "OK"
                  ELSE c.resp.code = "INVALID_PARAMS"
          [] m = "$/ping" -> ~c.invoked /\ c.resp = success(c.req.id)
          [] m = "$/cancel" -> ~c.invoked /\ c.resp = NoResponse
          [] m = "shutdown" -> ~c.invoked /\ c.resp = NoResponse
          [] OTHER ->
               /\ c.resp.id = c.req.id
               /\ IF ~c.init_before
                  THEN ~c.invoked /\ c.resp.code = "INVALID_REQUEST"
                  ELSE IF ~registered
                  THEN ~c.invoked /\ c.resp.code = "METHOD_NOT_FOUND"
                  ELSE c.invoked /\ c.resp.code \in {"OK", "INVALID_PARAMS", "INTERNAL_ERROR",
                                                     "REQUEST_CANCELLED"}

\* C11: a request the pre-request hook rejects has no handler invoked, adds
\* no active request, leaves initialized as it was and is answered with the
\* request's id and exactly the hook's error; a request the hook lets
\* through is answered as the dispatch answers it without a hook.
C11_PreHookReject ==
    /\ (IsRequest(last) /\ last.pre = "reject")
       => /\ ~last.invoked /\ ~last.user
          /\ last.resp = Response(last.req.id, HookError.code, HookError.msg, HookError.arg)
          /\ initialized = last.init_before
          /\ \A a \in active_requests : a.inst # last.inst
          /\ \A h \in running : h.inst # last.inst
    /\ (IsRequest(last) /\ last.pre \in {"continue", "skipped"}) => Dispatched(last)
    /\ (pc = "await" /\ cur.pre = "continue") => (initialized /\ GetHandler(handlers, cur.req.method) # {})

\* An initialized server's hook has rejected a request with id 2 for a
\* registered method, and the hook has let the request before it through to
\* its handler.
C11_Witness ==
    /\ IsRequest(last) /\ last.pre = "reject" /\ last.init_before
    /\ last.req.method = "backend.run" /\ last.req.id = 2
    /\ last.resp.code = "HOOK_REJECTED" /\ last.resp.id = 2

\* The method names of the protocol that can be capabilities.
ProtocolCapabilities ==
    {"format.load_model", "format.save_model", "format.load_tensor",
     "format.save_tensor", "backend.run", "backend.build"}

\* C12 as first stated: whatever methods were registered, the capabilities
\* initialize returns are all among the six protocol names.
C12_CapabilitiesInProtocol ==
    init_result # None =>
        \A i \in 1..Len(init_result[1].capabilities) :
            init_result[1].capabilities[i] \in ProtocolCapabilities

\* C12 amended: the capabilities initialize returns are registered method
\* names that begin with "format." or "backend.", each listed once; they are
\* among the six protocol names when only those were registered.
C12_Capabilities ==
    init_result # None =>
        LET caps == init_result[1].capabilities
        IN  /\ \A i \in 1..Len(caps) :
                  /\ \E h \in handlers : h.name = caps[i]
                  /\ \/ SubSeq(Chars(caps[i]), 1, 7) = <<"f","o","r","m","a","t",".">>
                     \/ SubSeq(Chars(caps[i]), 1, 8) = <<"b","a","c","k","e","n","d",".">>
                  /\ \A j \in 1..Len(caps) : caps[j] = caps[i] => j = i
            /\ (\A h \in handlers : h.name \in ProtocolCapabilities \cup {"$/status", "compile"})
               => \A i \in 1..Len(caps) : caps[i] \in ProtocolCapabilities

\* initialize has returned two capabilities after three registrations, one
\* of them a name outside the protocol's list and one a name that is no
\* capability.
C12_Witness ==
    /\ init_result # None /\ nregs = 3
    /\ init_result[1].capabilities = <<"backend.custom", "backend.run">>
    /\ \E h \in handlers : h.name = "$/status"

\* A call of the façade the program has made, by the ops it is one of.
CallOf(ops) == call.op \in ops

\* C13: while capture is active no façade operation appends an entry to the
\* gradient tape: a call of det, inv, trace or a bitwise op made in capture
\* mode leaves the tape as it was and, when it returns a tensor, has appended
\* one snapshot node, whatever the requires_grad flag of its input.
C13_NoTapeInCapture ==
    (capture_active /\ CallOf(LinalgOps \cup BitwiseOps))
        => /\ tape = call.before.tape
           /\ call.err = "none" => Len(snapshot) = Len(call.before.snapshot) + 1

\* C14: a façade operation (det, inv, trace, solve or a bitwise op) that
\* returns an error while capture is active leaves the node sequence of the
\* snapshot exactly as it was before the call.
C14_FailedCallNoNode ==
    (capture_active /\ CallOf(LinalgOps \cup BitwiseOps \cup {"solve"}) /\ call.err # "none")
        => snapshot = call.before.snapshot

\* The last call made again from the same world, capturing or executing.
TwinCall(capture, o) ==
    Facade(call.op, call.before, call.args, call.shift, capture, features, o)

NoFault == [fault |-> "none", computing |-> FALSE]

C16_BitwiseNoGrad ==
    CallOf(BitwiseOps) =>
        /\ tape = call.before.tape
        /\ call.err = "none" => ~call.tensor.requires_grad

\* An executed bitwise op on an input that requires grad returned a tensor.
C16_Witness ==
    /\ ~capture_active
    /\ call.op = "bitwise_xor"
    /\ call.err = "none"
    /\ call.args[1].requires_grad
    /\ call.tensor.storage
    /\ ~call.tensor.requires_grad
    /\ Len(launched) = 1

\* A dispatch function has returned from a call with the op of its variant,
\* operands of one dtype and no failure of the allocation or the launch.
DispatchReturned ==
    /\ storage_call.state = "returned"
    /\ OpVariant(storage_call.op) = storage_call.fn
    /\ storage_call.rhs = storage_call.lhs
    /\ storage_call.fault = "none"

\* C17: on each backend each bitwise dispatch function succeeds for input
\* storage of every enabled integer dtype, and for input storage of every
\* other dtype (bool and the float types) it returns a BackendError and
\* launches no kernel.
C17_BitwiseDTypeDiscipline ==
    DispatchReturned =>
        IF storage_call.lhs \in IntDTypes
        THEN storage_call.err = "none"
        ELSE storage_call.err = "BackendError" /\ storage_call.launched = <<>>

\* The triples a bitwise kernel exists for.
KernelTriples == Backends \X BitwiseOps \X IntDTypes

\* C18: the kernel identifier "hodu_" + backend + "_" + op + "_" + dtype is
\* injective over the kernels that exist: the identifier a dispatch function
\* launches is the identifier of no other (backend, op, dtype) triple.
C18_MangleInjective ==
    storage_call.launched # <<>> =>
        \A t \in KernelTriples :
            kernel_name(t[1], t[2], t[3]) = storage_call.launched[1]
                => t = <<storage_call.backend, storage_call.op, storage_call.lhs>>

\* The CUDA scalar shift of i64 storage launched its kernel.
C18_Witness ==
    /\ storage_call.state = "returned"
    /\ storage_call.backend = "cuda"
    /\ storage_call.op = "shl_scalar"
    /\ storage_call.lhs = "i64"
    /\ storage_call.launched =
        <<<<"h","o","d","u","_","c","u","d","a","_","s","h","l","_","s","c","a","l","a","r",
            "_","i","6","4">>>>

\* The shape of the input of the last call has rank < 2 or its last two
\* dimensions differ.
NotSquareInput ==
    LET shape == call.args[1].layout.shape
    IN  Len(shape) < 2 \/ shape[Len(shape)] # shape[Len(shape) - 1]

DTypeErrors == {"UnsupportedDTypeForDevice", "UnsupportedDTypeForOp"}

\* C19 as first stated: det, inv and trace return InvalidArgument exactly when
\* the input has rank < 2 or its last two dimensions differ, and that error
\* comes before any snapshot node is appended or any kernel is dispatched.
C19_InvalidArgumentExactly ==
    CallOf(LinalgOps) =>
        /\ call.err = "InvalidArgument" <=> NotSquareInput
        /\ call.err = "InvalidArgument"
                => snapshot = call.before.snapshot /\ launched = call.before.launched

\* C19: for an input whose dtype passes the validation for the device and
\* for the op, det, inv and trace return InvalidArgument exactly when the input
\* has rank < 2 or its last two dimensions differ; an input of rank >= 2 with
\* equal last two dimensions passes the shape validation; the dtype and shape
\* checks are made before any snapshot node is appended or any kernel is
\* dispatched.
C19_InvalidArgument ==
    CallOf(LinalgOps) =>
        /\ call.err \notin DTypeErrors
                => (call.err = "InvalidArgument" <=> NotSquareInput)
        /\ call.err \in DTypeErrors \cup {"InvalidArgument"}
                => snapshot = call.before.snapshot /\ launched = call.before.launched

\* det of a 2x3 matrix returned InvalidArgument while capturing.
C19_Witness ==
    /\ capture_active
    /\ call.op = "det"
    /\ call.args[1].layout.shape = <<2, 3>>
    /\ call.err = "InvalidArgument"
    /\ snapshot = <<>>

\* tril or triu has returned from a call on a matrix.
TriReturned == tri_call.state = "returned" /\ Len(tri_call.self.shape) = 2

\* C20: for every matrix x of shape [N, M] and every k, tril(x, k)[i,j] is
\* x[i,j] when i + k >= j and 0 otherwise, triu(x, k)[i,j] is x[i,j] when
\* j >= i + k and 0 otherwise, and the output has the shape of x.
C20_TrilTriu ==
    TriReturned =>
        /\ tri_call.err = "none"
        /\ tri_call.out.shape = tri_call.self.shape
        /\ \A ix \in Indices(tri_call.self.shape) :
            tri_call.out.at[ix] =
                IF \/ tri_call.fn = "tril" /\ ix[1] + tri_call.diagonal >= ix[2]
                   \/ tri_call.fn = "triu" /\ ix[2] >= ix[1] + tri_call.diagonal
                THEN tri_call.self.at[ix]
                ELSE Num(0)

\* The two calls of diag are over.
DiagDone == diag_call.state \in {"extracted", "failed"}

\* C21: for every 1-D tensor v of length n >= 0 and every offset k,
\* diag(diag(v, k), k) = v: both calls succeed and the second returns a 1-D
\* tensor of length n with the elements of v in order.
C21_DiagRoundTrip ==
    DiagDone =>
        /\ diag_call.state = "extracted"
        /\ diag_call.out.shape = diag_call.v.shape
        /\ \A ix \in Indices(diag_call.v.shape) : diag_call.out.at[ix] = diag_call.v.at[ix]

\* The decimal text of a number.
RECURSIVE Decimal(_)
Decimal(n) ==
    IF n < 10 THEN <<DecimalDigits[n + 1]>>
    ELSE Decimal(n \div 10) \o <<DecimalDigits[(n % 10) + 1]>>

\* The numbers whose decimal text a device string of the model can end with.
Numbers == 0..(2 * UsizeMax + 10)

\* The ways to cut the device string at a "::".
Cuts(device) ==
    {i \in 1..(Len(device) - 1) : device[i] = ":" /\ device[i + 1] = ":"}

Before(device, i) == SubSeq(device, 1, i - 1)
After(device, i) == SubSeq(device, i + 2, Len(device))

DigitsOnly(s) == s # <<>> /\ \A i \in 1..Len(s) : IsDigit(s[i])

ParseReturned == parse_call.state = "returned"

\* C22 as stated: parse_device_id("t::n") = Some(n) for every device type t and
\* every decimal n >= 0; None for a string without "::" and for a string whose
\* part after "::" is not a decimal number.
C22_ParseDeviceIdAll ==
    ParseReturned =>
        /\ \A i \in Cuts(parse_call.device), n \in Numbers :
            After(parse_call.device, i) = Decimal(n) => parse_call.result = Some(n)
        /\ Cuts(parse_call.device) = {} => parse_call.result = None
        /\ \A i \in Cuts(parse_call.device) :
            ~DigitsOnly(After(parse_call.device, i)) => parse_call.result = None

\* The text is an optional '+' and then the decimal text, leading zeros
\* allowed, of a number that usize holds.
UsizeText(s) ==
    \E n \in 0..UsizeMax, z \in 0..Len(s), p \in {<<>>, <<"+">>} :
        s = p \o [j \in 1..z |-> "0"] \o Decimal(n)

\* The first "::" of the device string is at i, and the piece after it ends
\* at the next "::" or at the end of the string.
FirstCut(device, i) == i \in Cuts(device) /\ \A j \in Cuts(device) : i <= j

IdPiece(device, i) ==
    LET rest == After(device, i)
    IN  IF Cuts(rest) = {} THEN rest
        ELSE SubSeq(rest, 1, (CHOOSE j \in Cuts(rest) : \A l \in Cuts(rest) : j <= l) - 1)

\* C22 (amended): for a device type t that neither contains "::" nor ends with
\* ':' and a number n that usize holds, parse_device_id("t::n") = Some(n); a
\* string without "::" gives None;
\* a string with "::" gives None exactly when the piece between its first "::"
\* and the next "::" (or the end) is not an optional '+' and decimal digits of
\* a number that usize holds.
C22_ParseDeviceId ==
    ParseReturned =>
        /\ \A i \in Cuts(parse_call.device), n \in 0..UsizeMax :
            (FirstCut(parse_call.device, i) /\ After(parse_call.device, i) = Decimal(n))
                => parse_call.result = Some(n)
        /\ Cuts(parse_call.device) = {} => parse_call.result = None
        /\ \A i \in Cuts(parse_call.device) :
            FirstCut(parse_call.device, i) =>
                (parse_call.result = None <=> ~UsizeText(IdPiece(parse_call.device, i)))

\* "c::1" was parsed to Some(1).
C22_Witness ==
    /\ ParseReturned
    /\ parse_call.device = <<"c", ":", ":", "1">>
    /\ parse_call.result = Some(1)

\* The name is empty or has '/', '\', ".." or a NUL byte in it.
BadName(name) ==
    \/ name = <<>>
    \/ \E i \in 1..Len(name) : name[i] \in {"/", "\\", "NUL"}
    \/ \E i \in 1..(Len(name) - 1) : name[i] = "." /\ name[i + 1] = "."

\* The file lies directly inside save_dir: save_dir, then one file name.
DirectlyInside(path) ==
    /\ path.base = "save_dir"
    /\ \A i \in 1..Len(path.rel) : path.rel[i] \notin {"/", "\\"}

\* C23: save_outputs writes no file for an output whose name is empty or
\* contains '/', '\', ".." or NUL, every such name makes it return an error,
\* and every file it creates lies directly inside save_dir.
C23_SaveOutputsSafe ==
    save_call.state = "returned" =>
        /\ \A f \in save_call.files : ~BadName(f.name)
        /\ (\E name \in save_call.outputs : BadName(name)) => save_call.err # "none"
        /\ \A f \in save_call.files : DirectlyInside(f.path)

\* The greatest index of its buffer a layout reaches, its offset aside.
max_reachable_index(layout) ==
    LET RECURSIVE sum(_)
        sum(k) == IF k = 0 THEN 0 ELSE sum(k - 1) + (layout.shape[k] - 1) * layout.strides[k]
    IN  sum(Len(layout.shape))

\* C24: in execute mode the tensor a bitwise op returns has a layout with
\* offset + max_reachable_index < buffer_size, the buffer being the output
\* storage the call allocated.
C24_BitwiseLayoutInBuffer ==
    (~capture_active /\ CallOf(BitwiseOps) /\ call.err = "none") =>
        /\ Len(call.allocated) = 1
        /\ call.allocated[1].tensor = call.tensor.id
        /\ call.tensor.layout.offset + max_reachable_index(call.tensor.layout)
                < call.allocated[1].num_els

\* C25: where run() is about to read the next line, or handle_batch to take
\* the next element, active_requests is empty; while a handler runs it holds
\* exactly one entry, keyed by the id of the request being handled; the entry
\* is gone once the handler has returned a result or an error or has been
\* timed out.
C25_ActiveRequests ==
    /\ pc \in {"read", "dispatch"} => active_requests = {}
    /\ pc = "await" =>
          /\ Cardinality(active_requests) = 1
          /\ \A a \in active_requests : a.id = cur.req.id /\ a.inst = cur.inst
    /\ (last.invoked /\ pc # "await") =>
          \A a \in active_requests : a.id # last.req.id

\* A handler was timed out, and one returned: in both cases the map is empty
\* when the next line is read.
C25_Witness ==
    /\ pc = "read"
    /\ last.user
    /\ last.timed_out
    /\ nreq >= 2
    /\ active_requests = {}

\* The tape entry a call of det, inv or trace records.
LinalgEntry ==
    [inputs |-> <<call.args[1].id>>, output_id |-> call.tensor.id, op |-> call.op,
     params |-> OpParams(CASE call.op = "det" -> "DetParams"
                           [] call.op = "inv" -> "InvParams"
                           [] OTHER -> "TraceParams", 0)]

\* det, inv or trace returned a tensor in execute mode.
LinalgExecuted == ~capture_active /\ CallOf(LinalgOps) /\ call.err = "none"

\* C26 as stated: the tape entry is appended exactly when the output's
\* requires_grad is true.
C26_GradTapeExactly ==
    LinalgExecuted =>
        /\ call.tensor.requires_grad =
              (call.args[1].requires_grad /\ validate_requires_grad_for_op(call.op))
        /\ tape = IF call.tensor.requires_grad
                  THEN Append(call.before.tape, LinalgEntry)
                  ELSE call.before.tape

\* C26: in execute mode the output of det, inv and trace has requires_grad =
\* (input.requires_grad and the op supports gradient), and the tape entry
\* (inputs, output id, op, params) is appended exactly when that requires_grad
\* is true and no gradient computation is in progress.
C26_GradTape ==
    LinalgExecuted =>
        /\ call.tensor.requires_grad =
              (call.args[1].requires_grad /\ validate_requires_grad_for_op(call.op))
        /\ tape = IF call.tensor.requires_grad /\ ~call.computing
                  THEN Append(call.before.tape, LinalgEntry)
                  ELSE call.before.tape

\* det of a matrix that requires grad recorded its entry.
C26_Witness ==
    /\ LinalgExecuted
    /\ call.tensor.requires_grad
    /\ ~call.computing
    /\ tape = <<LinalgEntry>>

\* The values given to handle_message so far on this line that it answers:
\* all but the `$/cancel` notifications and a shutdown request.
Answered(seen) == {k \in 1..Len(seen) : seen[k].class \in {"garbage", "request"}}

\* C27: handle_message answers every message other than `$/cancel` and
\* shutdown with exactly one response: a request with a response carrying its
\* id, a message that does not parse with PARSE_ERROR and id 0; `$/cancel` is
\* the only message it returns no response for.
C27_OneResponse ==
    /\ (last.inst > 0 /\ Class(last.req) = "request")
          => (last.resp.id = last.req.id /\ last.resp.code # "none")
    /\ (last.inst > 0 /\ Class(last.req) = "garbage")
          => last.resp = Response(0, "PARSE_ERROR", parse_error.msg, 0)
    /\ (last.inst > 0 /\ pc # "exited")
          => (last.resp = NoResponse <=> Class(last.req) = "notification")
    /\ (line.kind = "single" /\ pc = "read" /\ last.inst > 0)
          => IF Class(last.req) = "notification"
             THEN ResponseLines(stdout) = {}
             ELSE /\ Cardinality(ResponseLines(stdout)) = 1
                  /\ stdout[Len(stdout)] = ResponseLine(last.resp)
    /\ (line.kind = "batch" /\ line.n >= 1)
          => /\ Len(responses) = Cardinality(Answered(batchReqs))
             /\ (last.inst > 0 /\ Class(last.req) \in {"garbage", "request"})
                    => responses[Len(responses)] = last.resp.id

\* A batch of a line that does not parse and a request: two responses, the
\* first with id 0, the second with the request's id.
C27_Witness ==
    /\ line.kind = "batch" /\ pc = "read" /\ left = 0
    /\ Len(batchReqs) = 2
    /\ batchReqs[1].class = "garbage" /\ batchReqs[2].class = "request"
    /\ responses = <<0, last.req.id>>
    /\ last.resp.code = "METHOD_NOT_FOUND"

\* C28: with a post-request hook installed, every parsed request whose method
\* is not initialize, shutdown or "$/"-prefixed has the hook invoked before its
\* response is returned, also when the pre-request hook rejected it, when the
\* server is uninitialized and when the method is unregistered; success is
\* true exactly when the response is a success, and error_code is the code of
\* the error response otherwise. Without a hook installed nothing is invoked.
C28_PostHook ==
    (IsRequest(last) /\ ~ClaimInternal(last.req.method)) =>
        IF post_request_hook
        THEN /\ last.post.called
             /\ last.post.success = (last.resp.code = "OK")
             /\ last.post.error_code =
                   IF last.resp.code = "OK" THEN "none" ELSE last.resp.code
        ELSE last.post = NoPost

\* The hook has been told of a rejection by the pre-request hook.
C28_Witness ==
    /\ IsRequest(last) /\ ~ClaimInternal(last.req.method)
    /\ last.pre = "reject"
    /\ last.post = [called |-> TRUE, success |-> FALSE, error_code |-> "HOOK_REJECTED"]
    /\ last.resp.code = "HOOK_REJECTED"

\* handle_message has returned from an initialize request.
Initializing(c) == IsRequest(c) /\ c.req.method = INITIALIZE

\* A well-formed initialize to an uninitialized server succeeds, and the
\* server becomes initialized only by an initialize request that returns a
\* result.
InitializedByResult ==
    /\ [](Initializing(last) /\ last.req.params.tag = "valid" /\ ~last.init_before
            => (last.resp = success(last.req.id) /\ initialized))
    /\ [][(~initialized /\ initialized')
            => (Initializing(last') /\ last'.resp.code = "OK")]_vars

\* C29 as stated: every initialize request whose params are missing or do not
\* deserialize fails with INVALID_PARAMS and leaves the server uninitialized.
C29_InitializeParamsAlways ==
    /\ [](Initializing(last) /\ last.req.params.tag # "valid"
            => (last.resp.code = "INVALID_PARAMS" /\ ~initialized))
    /\ InitializedByResult

\* C29: an initialize request to an uninitialized server whose params are
\* missing or do not deserialize fails with INVALID_PARAMS and leaves the
\* server uninitialized, so that a later well-formed initialize succeeds; the
\* server becomes initialized only by an initialize request that returns a
\* result.
C29_InitializeParams ==
    /\ [](Initializing(last) /\ last.req.params.tag # "valid" /\ ~last.init_before
            => (last.resp.id = last.req.id /\ last.resp.code = "INVALID_PARAMS"
                /\ ~initialized))
    /\ InitializedByResult

\* A well-formed initialize has succeeded as the third call of a run that
\* left the server uninitialized until then, the second element of a batch.
C29_Witness ==
    /\ Initializing(last) /\ last.req.params = OkParams
    /\ ~last.init_before /\ initialized
    /\ last.resp.code = "OK"
    /\ last.inst = 3
    /\ line.kind = "batch" /\ Len(batchReqs) = 2
    /\ batchReqs[1] = [id |-> 1, class |-> "request"]
    /\ responses = <<1, last.req.id>>

\* ceil(num_els / 256) of the element count itself.
CeilBlocks(n) == n.blocks + (IF n.rest > 0 THEN 1 ELSE 0)

\* grid_size * 256 >= num_els
Covers(grid_size, n) == grid_size >= CeilBlocks(n)

\* C30: for every element count the launchers use block size 256 and grid
\* size max(1, ceil(num_els / 256)), so that grid size x 256 >= num_els.
C30_GridCovers ==
    (launch_call.state = "returned" /\ launch_call.err \in {"none", "LaunchError"}) =>
        /\ launch_call.cfg.block_dim = <<256, 1, 1>>
        /\ launch_call.cfg.shared_mem_bytes = 0
        /\ launch_call.cfg.grid_dim = <<Max(1, CeilBlocks(launch_call.num_els)), 1, 1>>
        /\ Covers(launch_call.cfg.grid_dim[1], launch_call.num_els)

====
